---------------------------- MODULE Spec2Model ----------------------------
(***************************************************************************)
(* A model of the text-analysis layer of the IsItClear extension:          *)
(*   - AIService   (src/src/lib/services/ai-service.js)                    *)
(*   - TextAnalyzer (src/src/lib/services/text-analyzer.js)                *)
(*   - ClarityImprovement / ChangeDetail                                   *)
(*                 (src/src/lib/models/clarity-improvement.js)             *)
(*   - TextContent (src/src/lib/models/text-content.js)                    *)
(*                                                                         *)
(* Strings are run-length coded: a text is a sequence of runs              *)
(* [c |-> character, n |-> repetitions] in which neighbouring runs carry   *)
(* different characters, so two texts are the same string exactly when     *)
(* they are the same sequence.  This keeps texts of 51 or 5001 characters  *)
(* small while lengths, prefixes, trimming and word splitting are computed *)
(* on the real character counts.                                           *)
(***************************************************************************)
EXTENDS Integers, Sequences, FiniteSets, TLC

(***************************************************************************)
(* Bounds of the model.                                                    *)
(***************************************************************************)
\* Runs per enumerated text (three runs give texts of two words).
MaxRuns == 3
\* Analyses that may be in flight together.
NumProcs == 2
\* Analyses started in one behaviour of SpecSeq.
MaxSeqCalls == 2
\* The analyses of the history specification: more than the history holds.
MaxHistCalls == 12

\* TextContent objects alive at once.
NumContents == 2

\* The longest list of items handed to analyzeBatch.
MaxItems == 4

\* analyzeBatch with any integer for maxConcurrent: the longest list, the
\* widths from -MaxDescent to MaxDescent, and how far below 0 the loop
\* index is followed.
MaxLoopItems == 2
MaxDescent == 3

\* The calls one caller makes in the specification of the session table,
\* and how long its clock runs, in session timeouts.
\* The input fields of the page, and the clicks the user makes on the
\* overlay's buttons.
NumFields == 2
MaxClicks == 4
\* The longest list of domain patterns a UserPreferences is built with.
MaxDomains == 2
\* The sessions in the table of the ES-module service.
NumEsmSessions == 2
\* The calls two concurrent callers of AIService make in all.
MaxRaceCalls == 2
\* The changes of one analysis data object.
MaxChanges == 2
MaxSessCalls == 3
MaxTimeouts == 2

(***************************************************************************)
(* Program constants.                                                      *)
(***************************************************************************)
\* ai-service.js:297 and text-content.js:25, the maximum text length.
MaxTextLength == 5000
\* ai-service.js:381, a phrase longer than this is cut for the change record.
PhraseLimit == 50
\* ai-service.js:381, the characters kept of a phrase that is cut.
PhraseKeep == 47
\* text-analyzer.js:11, the capacity of the analysis history.
\* analyzeBatch: options.maxConcurrent || 3, and the pause between windows.
DefaultMaxConcurrent == 3
BatchDelay == 100

\* AIService.sessionTimeout
sessionTimeout == 300000

maxHistorySize == 10

(***************************************************************************)
(* Strings.                                                                *)
(***************************************************************************)
Alphabet == {"a", "A", " "}
RunLengths == {1, PhraseLimit + 1}
Runs == [c : Alphabet, n : RunLengths]

Run(ch, k) == [c |-> ch, n |-> k]

IsNormal(t) == \A i \in 1..(Len(t) - 1) : t[i].c # t[i + 1].c

\* The empty string.
EmptyText == << >>

\* Every string of at most MaxRuns runs over the alphabet, and the two
\* strings at the length limit: exactly 5000 and 5001 characters.
RunTexts == UNION {{t \in [1..k -> Runs] : IsNormal(t)} : k \in 0..MaxRuns}
LongTexts == {<<Run("a", MaxTextLength)>>, <<Run("a", MaxTextLength + 1)>>}
Texts == RunTexts \cup LongTexts

\* String.prototype.length
RECURSIVE StrLen(_)
StrLen(t) == IF t = << >> THEN 0 ELSE Head(t).n + StrLen(Tail(t))

\* s + t
Concat(s, t) ==
  IF s = << >> THEN t
  ELSE IF t = << >> THEN s
  ELSE IF s[Len(s)].c = t[1].c
       THEN SubSeq(s, 1, Len(s) - 1)
              \o <<Run(t[1].c, s[Len(s)].n + t[1].n)>> \o Tail(t)
       ELSE s \o t

\* t.substring(0, k)
RECURSIVE Substring0(_, _)
Substring0(t, k) ==
  IF k <= 0 \/ t = << >> THEN << >>
  ELSE IF Head(t).n <= k
       THEN Concat(<<Head(t)>>, Substring0(Tail(t), k - Head(t).n))
       ELSE <<Run(Head(t).c, k)>>

IsSpace(ch) == ch = " "

\* t.trim()
Trim(t) ==
  LET s == IF t # << >> /\ IsSpace(Head(t).c) THEN Tail(t) ELSE t
  IN  IF s # << >> /\ IsSpace(s[Len(s)].c) THEN SubSeq(s, 1, Len(s) - 1) ELSE s

LowerChar(ch) == IF ch = "A" THEN "a" ELSE ch

\* t.toLowerCase()
RECURSIVE ToLowerCase(_)
ToLowerCase(t) ==
  IF t = << >> THEN << >>
  ELSE Concat(<<Run(LowerChar(Head(t).c), Head(t).n)>>, ToLowerCase(Tail(t)))

\* t.split(/\s+/): the pieces between the whitespace runs, the empty pieces
\* before a leading and after a trailing run included; [''] for ''.
RECURSIVE SplitAcc(_, _, _)
SplitAcc(t, cur, acc) ==
  IF t = << >> THEN Append(acc, cur)
  ELSE IF IsSpace(Head(t).c)
       THEN SplitAcc(Tail(t), << >>, Append(acc, cur))
       ELSE SplitAcc(Tail(t), Append(cur, Head(t)), acc)

SplitWs(t) == SplitAcc(t, << >>, << >>)

Range(f) == {f[i] : i \in DOMAIN f}

(***************************************************************************)
(* Numbers.  A confidence score is a JavaScript double; the model carries  *)
(* it in millionths, rounded down, which keeps the order of the five       *)
(* doubles the code can produce: 0, 0.7, 0.7 + 0.1 = 0.7999999999999999,   *)
(* 0.7 + 0.2 = 0.8999999999999999 and 0.7 + 0.1 + 0.2 = 1.                 *)
(***************************************************************************)
\* ai-service.js:360, the cap 1.0.
ConfOne == 1000000
\* ai-service.js:355, the base confidence 0.7.
ConfBase == 700000
\* ai-service.js:357, the bonus 0.1 of a meaningful length change.
LengthBonus == 100000
\* ai-service.js:358, the bonus 0.2 of a balanced similarity.
SimilarityBonus == 200000
\* clarity-improvement.js:276, the confidence a response without one is given.
DefaultConfidence == 700000

\* x + y on doubles, for the sums _calculateConfidenceScore forms.
FloatAdd(x, y) ==
  CASE x = ConfBase /\ y = LengthBonus -> 799999
    [] x = ConfBase /\ y = SimilarityBonus -> 899999
    [] x = 799999 /\ y = SimilarityBonus -> ConfOne
    [] OTHER -> x + y

Min(x, y) == IF x <= y THEN x ELSE y
Abs(x) == IF x < 0 THEN -x ELSE x

(***************************************************************************)
(* AIService: the pure helpers.                                            *)
(***************************************************************************)
\* The word sets of _calculateSimilarity and their overlap |A \cap B| / |A \cup B|,
\* as the pair <<numerator, denominator>>.
WordSet(t) == Range(SplitWs(ToLowerCase(t)))

_calculateSimilarity(text1, text2) ==
  LET words1 == WordSet(text1)
      words2 == WordSet(text2)
  IN  <<Cardinality(words1 \cap words2), Cardinality(words1 \cup words2)>>

\* The chain of bonuses, written apart so that the cap is one definition.
ConfidenceSum(originalText, improvedText) ==
  LET originalWords == Len(SplitWs(Trim(originalText)))
      improvedWords == Len(SplitWs(Trim(improvedText)))
      sim == _calculateSimilarity(originalText, improvedText)
      \* lengthRatio > 0.1
      lengthChanged == 10 * Abs(improvedWords - originalWords) > originalWords
      \* similarityScore > 0.3 && similarityScore < 0.9
      balanced == 10 * sim[1] > 3 * sim[2] /\ 10 * sim[1] < 9 * sim[2]
      c1 == IF lengthChanged THEN FloatAdd(ConfBase, LengthBonus) ELSE ConfBase
  IN  IF balanced THEN FloatAdd(c1, SimilarityBonus) ELSE c1

\* A variant that adds the length ratio itself where the code adds 0.1, and
\* does not cap.
RatioAddedUncapped(originalText, improvedText) ==
  LET originalWords == Len(SplitWs(Trim(originalText)))
      improvedWords == Len(SplitWs(Trim(improvedText)))
  IN  IF originalText = EmptyText \/ improvedText = EmptyText THEN 0
      ELSE ConfBase + (ConfOne * Abs(improvedWords - originalWords)) \div originalWords

_calculateConfidenceScore(originalText, improvedText) ==
  IF originalText = EmptyText \/ improvedText = EmptyText THEN 0
  ELSE Min(ConfidenceSum(originalText, improvedText), ConfOne)

Ellipsis == <<Run(".", 3)>>

\* text.length > 50 ? text.substring(0, 47) + '...' : text
CutPhrase(t) ==
  IF StrLen(t) > PhraseLimit THEN Concat(Substring0(t, PhraseKeep), Ellipsis) ELSE t

_generateChangeDetails(originalText, improvedText) ==
  IF originalText # improvedText
  THEN <<[changeType |-> "clarity",
          originalPhrase |-> CutPhrase(originalText),
          improvedPhrase |-> CutPhrase(improvedText),
          reason |-> "Overall clarity improvement",
          startPosition |-> 0,
          endPosition |-> StrLen(originalText)]>>
  ELSE << >>

NoError == [code |-> "", message |-> ""]

_createErrorResponse(code, message) ==
  [success |-> FALSE, improvedText |-> EmptyText, confidenceScore |-> 0,
   processingTime |-> 0, apiUsed |-> "", changes |-> << >>,
   error |-> [code |-> code, message |-> message]]

\* The object _analyzeWithRewriter and _analyzeWithPrompt return on success.
AnalysisSuccess(text, improvedText, processingTime, api) ==
  [success |-> TRUE, improvedText |-> improvedText,
   confidenceScore |-> _calculateConfidenceScore(text, improvedText),
   processingTime |-> processingTime, apiUsed |-> api,
   changes |-> _generateChangeDetails(text, improvedText),
   error |-> NoError]

(***************************************************************************)
(* ChangeDetail and ClarityImprovement: construction with validation.      *)
(* A constructor yields "ok" or the message of the error it throws.        *)
(***************************************************************************)
ValidChangeTypes == {"word-choice", "sentence-structure", "clarity", "conciseness"}
ValidImprovementTypes == {"rewriter", "prompt"}

ChangeDetail_validate(ch) ==
  IF ch.changeType \notin ValidChangeTypes THEN "Invalid change type"
  ELSE IF ch.originalPhrase = EmptyText
       THEN "originalPhrase is required and must be a string"
  ELSE IF ch.improvedPhrase = EmptyText
       THEN "improvedPhrase is required and must be a string"
  ELSE IF ch.originalPhrase = ch.improvedPhrase
       THEN "originalPhrase and improvedPhrase must not be identical"
  ELSE IF ch.reason = "" THEN "reason is required and must be a string"
  ELSE IF ch.startPosition < 0 THEN "startPosition must be a non-negative number"
  ELSE IF ch.endPosition < 0 THEN "endPosition must be a non-negative number"
  ELSE IF ch.startPosition >= ch.endPosition
       THEN "startPosition must be less than endPosition"
  ELSE "ok"

\* The message of the first change whose construction throws, or "ok".
RECURSIVE ChangesError(_)
ChangesError(chs) ==
  IF chs = << >> THEN "ok"
  ELSE IF ChangeDetail_validate(Head(chs)) # "ok"
       THEN ChangeDetail_validate(Head(chs))
       ELSE ChangesError(Tail(chs))

\* A variant without the check of the changes.
ChangesUnchecked(ci) ==
  IF ci.improvedText = EmptyText THEN "improvedText is required and must not be empty"
  ELSE IF ci.improvementType \notin ValidImprovementTypes
       THEN "improvementType must be one of: rewriter, prompt"
  ELSE IF ci.confidenceScore < 0 \/ ci.confidenceScore > ConfOne
       THEN "confidenceScore must be a number between 0 and 1"
  ELSE IF ci.processingTime <= 0 THEN "processingTime must be a positive number"
  ELSE "ok"

ClarityImprovement_validate(ci) ==
  IF ci.improvedText = EmptyText THEN "improvedText is required and must not be empty"
  ELSE IF ci.improvementType \notin ValidImprovementTypes
       THEN "improvementType must be one of: rewriter, prompt"
  ELSE IF ci.confidenceScore < 0 \/ ci.confidenceScore > ConfOne
       THEN "confidenceScore must be a number between 0 and 1"
  ELSE IF Len(ci.changes) = 0 THEN "changes array must contain at least one change"
  ELSE IF ci.processingTime <= 0 THEN "processingTime must be a positive number"
  ELSE "ok"

NoImprovement ==
  [improvedText |-> EmptyText, improvementType |-> "", confidenceScore |-> 0,
   changes |-> << >>, processingTime |-> 0]

Thrown(msg) == [ok |-> FALSE, error |-> msg, value |-> NoImprovement]
Built(ci) == [ok |-> TRUE, error |-> "", value |-> ci]

\* new ClarityImprovement(...): the object, or the error its _validate throws.
NewClarityImprovement(improvedText, improvementType, confidenceScore, changes, time) ==
  LET ci == [improvedText |-> improvedText, improvementType |-> improvementType,
             confidenceScore |-> confidenceScore, changes |-> changes,
             processingTime |-> time]
  IN  IF ClarityImprovement_validate(ci) = "ok" THEN Built(ci)
      ELSE Thrown(ClarityImprovement_validate(ci))

\* x || d for a string and for a number.
OrElseStr(x, d) == IF x = "" THEN d ELSE x
OrElseNum(x, d) == IF x = 0 THEN d ELSE x

createFromAIResponse(aiResponse, originalText) ==
  IF ~aiResponse.success THEN Thrown("Invalid AI response")
  ELSE
    LET changes ==
          IF Len(aiResponse.changes) = 0
          THEN <<[changeType |-> "clarity",
                  originalPhrase |-> originalText,
                  improvedPhrase |-> aiResponse.improvedText,
                  reason |-> "Overall clarity improvement",
                  startPosition |-> 0,
                  endPosition |-> StrLen(originalText)]>>
          ELSE aiResponse.changes
    IN  IF ChangesError(changes) # "ok" THEN Thrown(ChangesError(changes))
        ELSE NewClarityImprovement(aiResponse.improvedText,
                                   OrElseStr(aiResponse.apiUsed, "rewriter"),
                                   OrElseNum(aiResponse.confidenceScore, DefaultConfidence),
                                   changes,
                                   OrElseNum(aiResponse.processingTime, 0))

(***************************************************************************)
(* TextAnalyzer.createAnalysisResult: the ClarityImprovement it builds from *)
(* caller-supplied analysis data.  An absent field of the data is "", 0 or *)
(* << >>: the code treats it as it treats that value.                      *)
(***************************************************************************)
_validateAnalysisData(analysisData) ==
  IF analysisData.originalText = EmptyText THEN "originalText is required"
  ELSE IF analysisData.improvedText = EmptyText THEN "improvedText is required"
  ELSE IF analysisData.confidenceScore < 0 \/ analysisData.confidenceScore > ConfOne
       THEN "confidenceScore must be a number between 0 and 1"
  ELSE IF analysisData.processingTime < 0
       THEN "processingTime must be a non-negative number"
  ELSE "ok"

\* The ChangeDetail arguments _createChangeDetails derives from a plain change.
ChangeArguments(change) ==
  [changeType |-> change.changeType,
   originalPhrase |-> change.originalPhrase,
   improvedPhrase |-> change.improvedPhrase,
   reason |-> OrElseStr(change.reason, "Text improvement"),
   startPosition |-> OrElseNum(change.startPosition, 0),
   endPosition |-> OrElseNum(change.endPosition, StrLen(change.originalPhrase))]

\* The message of the first change on which _createChangeDetails throws, or "ok".
RECURSIVE _createChangeDetailsError(_)
_createChangeDetailsError(changes) ==
  IF changes = << >> THEN "ok"
  ELSE IF \/ Head(changes).changeType = ""
          \/ Head(changes).originalPhrase = EmptyText
          \/ Head(changes).improvedPhrase = EmptyText
       THEN "Invalid change object: missing required properties"
  ELSE IF ChangeDetail_validate(ChangeArguments(Head(changes))) # "ok"
       THEN ChangeDetail_validate(ChangeArguments(Head(changes)))
  ELSE _createChangeDetailsError(Tail(changes))

_createChangeDetails(changes) == [i \in 1..Len(changes) |-> ChangeArguments(changes[i])]

createAnalysisResult(analysisData) ==
  IF _validateAnalysisData(analysisData) # "ok"
  THEN Thrown(_validateAnalysisData(analysisData))
  ELSE IF _createChangeDetailsError(analysisData.changes) # "ok"
  THEN Thrown(_createChangeDetailsError(analysisData.changes))
  ELSE NewClarityImprovement(analysisData.improvedText,
                             OrElseStr(analysisData.improvementType, "rewriter"),
                             OrElseNum(analysisData.confidenceScore, DefaultConfidence),
                             _createChangeDetails(analysisData.changes),
                             OrElseNum(analysisData.processingTime, 0))

(***************************************************************************)
(* TextContent: the state transitions used by the analyzer.  A method      *)
(* yields the new state and "ok", or the old state and the error thrown.   *)
(***************************************************************************)
\* A variant of the setters that moves to the target from any state.
TransitionAnyway(state, from, to) == [state |-> to, error |-> "ok"]

Transition(state, from, to) ==
  IF state # from
  THEN [state |-> state, error |-> "Cannot transition to " \o to \o " from " \o state]
  ELSE [state |-> to, error |-> "ok"]

setAnalyzing(state) == Transition(state, "Created", "Analyzing")
setAnalyzed(state) == Transition(state, "Analyzing", "Analyzed")
setAccepted(state) == Transition(state, "Analyzed", "Accepted")
setRejected(state) == Transition(state, "Analyzed", "Rejected")

\* TextContent.transitionTo of the ES module (lib/models/TextContent.js),
\* whose states are written in lower case.
validTransitions ==
  [s \in {"created", "analyzing", "analyzed"} |->
     IF s = "created" THEN {"analyzing"}
     ELSE IF s = "analyzing" THEN {"analyzed"}
     ELSE {"accepted", "rejected"}]

transitionTo(state, newState) ==
  IF state \notin DOMAIN validTransitions \/ newState \notin validTransitions[state]
  THEN [state |-> state,
        error |-> "Invalid state transition from " \o state \o " to " \o newState]
  ELSE [state |-> newState, error |-> "ok"]

\* new TextContent(text, fieldType, fieldContext)._validate(), for a valid
\* field type and field context.
TextContent_validate(originalText) ==
  IF StrLen(originalText) = 0
  THEN "originalText must not be empty (minimum 1 character)"
  ELSE IF StrLen(originalText) > MaxTextLength
       THEN "originalText maximum length is 5000 characters (based on AI model limits)"
  ELSE "ok"

\* textContent.isEmpty()
isEmpty(originalText) == StrLen(Trim(originalText)) = 0

(***************************************************************************)
(* Requests.  Parameters are an object whose keys keep their insertion     *)
(* order, which JSON.stringify shows: a sequence of <<key, value>> pairs.  *)
(***************************************************************************)
ApiTypes == {"rewriter", "prompt"}
Tones == {"formal", "neutral"}

\* A variant that retries the backend that has just failed.
SameApi(api) == api

OtherApi(api) == IF api = "rewriter" THEN "prompt" ELSE "rewriter"

\* TextAnalyzer._getDefaultParameters
_getDefaultParameters(preferredTone) ==
  << <<"tone", IF preferredTone = "formal" THEN "more-formal"
               ELSE IF preferredTone = "casual" THEN "more-casual" ELSE "as-is">>,
     <<"length", "as-is">>,
     <<"format", "plain-text">> >>

\* toneMapping[key]: the three entries of the object literal, what the
\* object inherits from Object.prototype (a function), undefined otherwise.
toneMapping(key) ==
  CASE key = "formal" -> "more-formal"
    [] key = "neutral" -> "as-is"
    [] key = "casual" -> "more-casual"
    [] key \in {"constructor", "toString", "valueOf", "hasOwnProperty"} -> "function"
    [] OTHER -> "undefined"

\* A variant that hands the preferred tone through unmapped.
ToneUnmapped(preferredTone) ==
  << <<"tone", preferredTone>>, <<"format", "plain-text">>, <<"length", "as-is">> >>

\* UserPreferences.getAIParameters: the same values as _getDefaultParameters
\* for the tones a UserPreferences can hold, the keys in another order.
getAIParameters(preferredTone) ==
  << <<"tone", IF toneMapping(preferredTone) = "undefined" THEN "as-is"
               ELSE toneMapping(preferredTone)>>,
     <<"format", "plain-text">>,
     <<"length", "as-is">> >>

\* parameters[key], "" when the key is absent.
RECURSIVE ParamGet(_, _)
ParamGet(parameters, key) ==
  IF parameters = << >> THEN ""
  ELSE IF Head(parameters)[1] = key THEN Head(parameters)[2]
  ELSE ParamGet(Tail(parameters), key)

\* JSON.stringify(parameters): the pairs in insertion order, those whose value
\* is undefined left out.
JSONstringify(parameters) == SelectSeq(parameters, LAMBDA kv : kv[2] # "undefined")

\* AIService._validateParameters
_validateParameters(parameters) ==
  IF ParamGet(parameters, "tone") \notin {"", "more-formal", "as-is", "more-casual"}
  THEN "Invalid tone parameter"
  ELSE IF ParamGet(parameters, "length") \notin {"", "shorter", "as-is", "longer"}
       THEN "Invalid length parameter"
  ELSE "ok"

\* TextAnalyzer._createAnalysisRequest: the backend kind and the parameters,
\* which a UserPreferences object supplies itself.
_createAnalysisRequest(preferredApi, preferredTone, hasGetAIParameters) ==
  [apiType |-> IF preferredApi = "" THEN "rewriter" ELSE preferredApi,
   parameters |-> IF hasGetAIParameters THEN getAIParameters(preferredTone)
                  ELSE _getDefaultParameters(preferredTone)]

\* A variant that checks the backend kind and the parameters, not the text.
TextUnchecked(text, apiType, parameters) ==
  IF apiType = "" THEN "Missing required parameter: apiType"
  ELSE _validateParameters(parameters)

\* AIService._validateAnalysisRequest
_validateAnalysisRequest(text, apiType, parameters) ==
  IF text = EmptyText THEN "Text cannot be empty"
  ELSE IF StrLen(text) > MaxTextLength THEN "TEXT_TOO_LONG"
  ELSE IF apiType = "" THEN "Missing required parameter: apiType"
  ELSE _validateParameters(parameters)

(***************************************************************************)
(* State.                                                                  *)
(***************************************************************************)
VARIABLES
  sessions,         \* AIService.sessions: the Map's entries in insertion order
  nextId,           \* the next session id _generateSessionId hands out
  fallbackEnabled,  \* AIService.fallbackEnabled
  apis,             \* which of the globals Rewriter and Prompt are defined
  now,              \* Date.now()
  analysisHistory,  \* TextAnalyzer.analysisHistory
  nextHistoryId,    \* the next id _generateHistoryId hands out
  call,             \* per caller: the analysis in flight and where it stands
  started,          \* analyses started so far
  keyStats,         \* per (backend, parameters): the calls of the backend's create()
                    \* and the handles _getOrCreateSession has returned
  fnPc, fnOrig, fnOut, fnResult,  \* the pure functions applied to one input
  contents,         \* TextContent objects: which class built them, and their state
  tcCall,           \* the last method called on a TextContent, and how it ended
  batch,            \* the analyzeBatch call: its locals and where it stands
  timers,           \* the cleanup timers set and not yet run, and the
                    \* destroySession calls they have started
  destroyed,        \* the ids for which a destroySession call has returned true
  cs,               \* the content script of a page: its ExtensionState, its
                    \* overlay, the field, the messages it has sent
  cleanupCall       \* the cleanup() call: where it stands, the ids it took
                    \* from the table, its destroySession calls not yet returned

svcVars == <<sessions, nextId, fallbackEnabled, apis, now, analysisHistory,
             nextHistoryId, call, started, keyStats, timers>>
fnVars == <<fnPc, fnOrig, fnOut, fnResult>>
auxVars == <<contents, tcCall, batch, destroyed, cs, cleanupCall>>
vars == <<sessions, nextId, fallbackEnabled, apis, now, analysisHistory,
          nextHistoryId, call, started, keyStats, fnPc, fnOrig, fnOut, fnResult,
          contents, tcCall, batch, timers, destroyed, cs, cleanupCall>>

Procs == 1..NumProcs

\* The analyses that can be in flight at once: the callers', or a window of
\* analyzeBatch with its default width.
Slots == 1..(IF NumProcs > DefaultMaxConcurrent THEN NumProcs ELSE DefaultMaxConcurrent)

\* result = null
Null == _createErrorResponse("null", "")

\* The analysis result TextAnalyzer returns.
AnalysisResult(originalText, ci) ==
  [originalText |-> originalText, improvedText |-> ci.improvedText,
   changes |-> ci.changes, confidenceScore |-> ci.confidenceScore,
   processingTime |-> ci.processingTime, improvementType |-> ci.improvementType]

NoResult == AnalysisResult(EmptyText, NoImprovement)

\* How a call ended: it threw an error, it returned AIService's response
\* (a direct call of AIService.analyzeText), or it returned TextAnalyzer's
\* analysis result.
NoOutcome ==
  [kind |-> "none", error |-> "", response |-> Null, result |-> NoResult, value |-> ""]
Threw(msg) == [NoOutcome EXCEPT !.kind = "threw", !.error = msg]
ReturnedResponse(r) == [NoOutcome EXCEPT !.kind = "returned", !.response = r]
ReturnedResult(r) == [NoOutcome EXCEPT !.kind = "returned", !.result = r]
\* destroySession returns true or false.
ReturnedValue(v) == [NoOutcome EXCEPT !.kind = "returned", !.value = v]

IdleCall ==
  [pc |-> "idle", entry |-> "", text |-> EmptyText, apiType |-> "",
   parameters |-> << >>, tcState |-> "", stage |-> "", api |-> "",
   sessionId |-> 0, session |-> 0, startTime |-> 0, result |-> Null,
   aiResponse |-> Null, outcome |-> NoOutcome,
   \* what this call has done so far: the backends attempted in order, the
   \* availability probes, create() calls, rewrite()/prompt() calls, and
   \* writes to the session table
   attempts |-> << >>, probes |-> 0, creates |-> 0, invokes |-> 0, writes |-> 0,
   \* what the background script has passed to sendResponse for this message
   responses |-> << >>]

CacheKey(api, parameters) == <<api, JSONstringify(parameters)>>

\* A variant of the lookup that matches on the backend alone.
FindByKind(sess, api, parameters) ==
  LET hits == {i \in 1..Len(sess) : sess[i].apiType = api}
  IN  IF hits = {} THEN 0 ELSE CHOOSE i \in hits : \A j \in hits : i <= j

\* A variant of the lookup that finds nothing.
NeverFound(sess, api, parameters) == 0

\* The index of the first entry of the session table that matches, 0 if none:
\* the for loop of _getOrCreateSession.
FindSession(sess, api, parameters) ==
  LET hits == {i \in 1..Len(sess) :
                 /\ sess[i].apiType = api
                 /\ JSONstringify(sess[i].parameters) = JSONstringify(parameters)}
  IN  IF hits = {} THEN 0 ELSE CHOOSE i \in hits : \A j \in hits : i <= j

\* The index of the entry with the given id, 0 if none: sessions.get(id).
SessionIndex(sess, id) ==
  LET hits == {i \in 1..Len(sess) : sess[i].id = id}
  IN  IF hits = {} THEN 0 ELSE CHOOSE i \in hits : TRUE

\* The parameters handed to createSession by its direct callers: none, the
\* defaults, and a tone that does not exist.
SessionParameters == {<< >>, _getDefaultParameters("neutral"), << <<"tone", "brisk">> >>}

\* The cache keys of the requests the model makes.
CacheKeys ==
  {CacheKey(api, ps) :
     api \in ApiTypes,
     ps \in {_getDefaultParameters(tone) : tone \in Tones}
            \cup {getAIParameters(tone) : tone \in Tones} \cup SessionParameters}

\* Bookkeeping per key: one more create() call, one more handle returned.
CreateCalled(ks, k) == [ks EXCEPT ![k].creates = @ + 1]
HandleReturned(ks, k, h) == [ks EXCEPT ![k].handles = @ \cup {h}]

(***************************************************************************)
(* AIService.analyzeText, one backend attempt.                             *)
(*                                                                         *)
(* An async function runs without interruption up to its next await; the   *)
(* operators below compute such a stretch as a function of the state it    *)
(* starts in and yield the state it ends in.                               *)
(***************************************************************************)
Effect(c, sess, id, cc) == [call |-> c, sessions |-> sess, nextId |-> id, keyStats |-> cc]

\* _analyzeWithRewriter / _analyzeWithPrompt from their first line to their
\* first suspension, _getOrCreateSession and createSession included:
\*   - the backend is undefined: the attempt ends with null;
\*   - the table holds a matching session: its lastUsed is touched and the
\*     attempt goes on with it;
\*   - otherwise createSession takes a fresh id and calls the backend's
\*     create(), whose answer the attempt awaits.
BeginAttempt(c, sess, id, cc, api, stage) ==
  LET c0 == [c EXCEPT !.api = api, !.stage = stage,
                      !.attempts = Append(@, api), !.probes = @ + 1,
                      !.sessionId = 0, !.session = 0, !.result = Null]
      hit == FindSession(sess, api, c.parameters)
  IN  IF ~apis[api]
      THEN Effect([c0 EXCEPT !.pc = "attemptDone"], sess, id, cc)
      ELSE IF hit # 0
      THEN Effect([c0 EXCEPT !.pc = "haveSession", !.startTime = now,
                             !.session = sess[hit].session, !.writes = @ + 1],
                  [sess EXCEPT ![hit].lastUsed = now], id,
                  HandleReturned(cc, CacheKey(api, c.parameters), sess[hit].session))
      ELSE IF _validateParameters(c.parameters) # "ok"
      \* createSession rethrows the validation error, which the attempt's
      \* catch turns into null
      THEN Effect([c0 EXCEPT !.pc = "attemptDone", !.startTime = now], sess, id, cc)
      ELSE Effect([c0 EXCEPT !.pc = "creating", !.startTime = now,
                             !.sessionId = id, !.probes = @ + 1, !.creates = @ + 1],
                  sess, id + 1, CreateCalled(cc, CacheKey(api, c.parameters)))

Apply(p, e) ==
  /\ call' = [call EXCEPT ![p] = e.call]
  /\ sessions' = e.sessions
  /\ nextId' = e.nextId
  /\ keyStats' = e.keyStats

\* The errors AIService.analyzeText rethrows instead of reporting them.
Rethrown == {"Text cannot be empty", "TEXT_TOO_LONG"}

\* AIService.analyzeText from its first line to its first suspension.
ServiceBegin(c, sess, id, cc) ==
  LET v == _validateAnalysisRequest(c.text, c.apiType, c.parameters)
  IN  IF v \in Rethrown
      THEN Effect([c EXCEPT !.pc = "serviceDone", !.outcome = Threw(v)], sess, id, cc)
      ELSE IF v # "ok"
      THEN Effect([c EXCEPT !.pc = "serviceDone",
                            !.aiResponse = _createErrorResponse("PROCESSING_ERROR", v)],
                  sess, id, cc)
      ELSE IF c.apiType \in ApiTypes
      THEN BeginAttempt(c, sess, id, cc, c.apiType, "primary")
      ELSE Effect([c EXCEPT !.pc = "attemptDone"], sess, id, cc)

\* TextAnalyzer.analyzeText from its first line to its first suspension:
\* its own checks, the TextContent, analyzeTextContent up to its call of
\* AIService.analyzeText, and that call's first stretch.
AnalyzerBegin(c, sess, id, cc) ==
  IF c.text = EmptyText
  THEN Effect([c EXCEPT !.pc = "done",
                        !.outcome = Threw("Text is required and must be a string")],
              sess, id, cc)
  ELSE IF StrLen(Trim(c.text)) = 0
  THEN Effect([c EXCEPT !.pc = "done", !.outcome = Threw("Text cannot be empty")],
              sess, id, cc)
  ELSE IF TextContent_validate(c.text) # "ok"
  THEN Effect([c EXCEPT !.pc = "done", !.outcome = Threw(TextContent_validate(c.text))],
              sess, id, cc)
  ELSE IF isEmpty(c.text)
  THEN Effect([c EXCEPT !.pc = "done",
                        !.outcome = Threw("Cannot analyze empty text content")],
              sess, id, cc)
  ELSE ServiceBegin([c EXCEPT !.tcState = setAnalyzing("Created").state], sess, id, cc)

(***************************************************************************)
(* TextAnalyzer: the history.                                              *)
(***************************************************************************)
\* A variant that pushes the entry at the end before cutting to the limit.
PushedToHistory(history, originalText, clarityImprovement, id) ==
  LET pushed == Append(history, [originalText |-> originalText,
                                 clarityImprovement |-> clarityImprovement,
                                 timestamp |-> now, id |-> id])
  IN  IF Len(pushed) > maxHistorySize THEN SubSeq(pushed, 1, maxHistorySize) ELSE pushed

\* TextAnalyzer._addToHistory
_addToHistory(history, originalText, clarityImprovement, id) ==
  LET historyEntry == [originalText |-> originalText,
                       clarityImprovement |-> clarityImprovement,
                       timestamp |-> now, id |-> id]
      unshifted == <<historyEntry>> \o history
  IN  IF Len(unshifted) > maxHistorySize
      THEN SubSeq(unshifted, 1, maxHistorySize)
      ELSE unshifted

\* The catch block of analyzeTextContent: textContent.setRejected(), then
\* the error is thrown on, unless setRejected itself throws.
CatchBlock(c, err) ==
  LET r == setRejected(c.tcState)
  IN  [c EXCEPT !.pc = "done", !.tcState = r.state,
                !.outcome = Threw(IF r.error # "ok" THEN r.error ELSE err)]

(***************************************************************************)
(* Actions.                                                                *)
(***************************************************************************)
\* The milliseconds that pass while a backend call is awaited: none (the
\* answer comes within the millisecond) or one.  Date.now() moves only
\* there.
Elapsed == {0, 1}
\* The same where the clock is not the point: none, or one.
Instant == {0}
Tick == {1}

Entries == {"analyzer", "service"}

\* A caller starts an analysis: TextAnalyzer.analyzeText(text, options) or,
\* directly, AIService.analyzeText(request).
StartAnalysis(p, entries, texts, tones, maxCalls) ==
  /\ call[p].pc = "idle"
  /\ started < maxCalls
  /\ \E entry \in entries, text \in texts, api \in ApiTypes, tone \in tones :
       LET req == _createAnalysisRequest(api, tone, FALSE)
           c == [IdleCall EXCEPT !.entry = entry, !.text = text,
                                 !.apiType = req.apiType,
                                 !.parameters = req.parameters]
       IN  Apply(p, IF entry = "analyzer"
                    THEN AnalyzerBegin(c, sessions, nextId, keyStats)
                    ELSE ServiceBegin(c, sessions, nextId, keyStats))
  /\ started' = started + 1
  /\ UNCHANGED <<fallbackEnabled, apis, now, analysisHistory, nextHistoryId, fnVars, auxVars, timers>>

\* message.includes(phrase)
Includes(message, phrase) ==
  \E i \in 1..(Len(message) - Len(phrase) + 1) :
    SubSeq(message, i, i + Len(phrase) - 1) = phrase

\* The catch block of createSession: errors that look like validation
\* errors are thrown on, the others reported as SESSION_FAILED.
CreateSessionCatch(message) ==
  IF \/ Includes(message, "Missing required parameter")
     \/ Includes(message, "Invalid API type")
     \/ Includes(message, "Invalid tone parameter")
     \/ Includes(message, "Invalid length parameter")
  THEN Threw(message)
  ELSE ReturnedResponse(_createErrorResponse("SESSION_FAILED", message))

\* The backend's create() settles.  On success createSession stores the
\* session, sets its cleanup timer and returns; on an error its catch block
\* throws or reports SESSION_FAILED, and in both cases _getOrCreateSession
\* throws, so that the attempt ends with null.  The error create() raises
\* carries a message of the backend's choice.
CreateSettles(p, elapsed) ==
  /\ call[p].pc = "creating"
  /\ \E ok \in BOOLEAN, d \in elapsed :
       /\ now' = now + d
       /\ IF ok
          THEN /\ sessions' = Append(sessions,
                                [id |-> call[p].sessionId,
                                 session |-> call[p].sessionId,
                                 apiType |-> call[p].api,
                                 parameters |-> call[p].parameters,
                                 createdAt |-> now', lastUsed |-> now'])
               /\ timers' = timers \cup {[id |-> call[p].sessionId,
                                          due |-> now' + sessionTimeout,
                                          pc |-> "set"]}
               /\ call' = IF call[p].entry = "createSession"
                          THEN [call EXCEPT ![p].pc = "done", ![p].writes = @ + 1,
                                  ![p].outcome = ReturnedResponse(
                                    [success |-> TRUE, sessionId |-> call[p].sessionId,
                                     capabilities |->
                                       [maxTextLength |-> MaxTextLength,
                                        supportedLanguages |-> <<"en">>]])]
                          ELSE [call EXCEPT ![p].pc = "created", ![p].writes = @ + 1]
          ELSE /\ UNCHANGED <<sessions, timers>>
               /\ IF call[p].entry = "createSession"
                  THEN \E message \in {"The model is not available",
                                        "Invalid tone parameter"} :
                         call' = [call EXCEPT ![p].pc = "done",
                                    ![p].outcome = CreateSessionCatch(message)]
                  ELSE call' = [call EXCEPT ![p].pc = "attemptDone", ![p].result = Null]
  /\ UNCHANGED <<nextId, fallbackEnabled, apis, analysisHistory, nextHistoryId,
                 started, keyStats, fnVars, auxVars>>

\* _getOrCreateSession resumes after createSession: it looks the new entry
\* up and returns its session (a TypeError, hence null, if it is gone).
SessionCreated(p) ==
  /\ call[p].pc = "created"
  /\ LET i == SessionIndex(sessions, call[p].sessionId)
     IN  IF i = 0
         THEN /\ call' = [call EXCEPT ![p].pc = "attemptDone", ![p].result = Null]
              /\ keyStats' = keyStats
         ELSE /\ call' = [call EXCEPT ![p].pc = "haveSession",
                                      ![p].session = sessions[i].session]
              /\ keyStats' = HandleReturned(keyStats,
                                CacheKey(call[p].api, call[p].parameters),
                                sessions[i].session)
  /\ UNCHANGED <<sessions, nextId, fallbackEnabled, apis, now, analysisHistory,
                 nextHistoryId, started, fnVars, auxVars, timers>>

\* The attempt resumes with its session and calls rewrite() or prompt().
CallBackend(p) ==
  /\ call[p].pc = "haveSession"
  /\ call' = [call EXCEPT ![p].pc = "invoking", ![p].invokes = @ + 1]
  /\ UNCHANGED <<sessions, nextId, fallbackEnabled, apis, now, analysisHistory,
                 nextHistoryId, started, keyStats, fnVars, auxVars, timers>>

\* rewrite() or prompt() settles with a text.
BackendSettles(p, outputs, elapsed) ==
  /\ call[p].pc = "invoking"
  /\ \E d \in elapsed, out \in outputs :
       /\ now' = now + d
       /\ call' = [call EXCEPT ![p].pc = "attemptDone",
                     ![p].result = AnalysisSuccess(call[p].text, out,
                                     now' - call[p].startTime, call[p].api)]
  /\ UNCHANGED <<sessions, nextId, fallbackEnabled, apis, analysisHistory,
                 nextHistoryId, started, keyStats, fnVars, auxVars, timers>>

\* rewrite() or prompt() raises: the attempt's catch turns it into null.
BackendRejects(p, elapsed) ==
  /\ call[p].pc = "invoking"
  /\ \E d \in elapsed : now' = now + d
  /\ call' = [call EXCEPT ![p].pc = "attemptDone", ![p].result = Null]
  /\ UNCHANGED <<sessions, nextId, fallbackEnabled, apis, analysisHistory,
                 nextHistoryId, started, keyStats, fnVars, auxVars, timers>>

\* AIService.analyzeText ends: the result, or API_UNAVAILABLE for null.
ServiceEnd(c) ==
  [c EXCEPT !.pc = "serviceDone",
            !.aiResponse = IF c.result = Null
                           THEN _createErrorResponse("API_UNAVAILABLE",
                                  "No AI APIs available for text analysis")
                           ELSE c.result]

\* A variant that falls back whatever the setting says.
FallbackAlways(c, enabled) == c.stage = "primary" /\ c.result = Null

\* A variant that falls back whatever the primary attempt gave.
FallbackRegardless(c, enabled) == c.stage = "primary" /\ enabled

\* if (!result && this.fallbackEnabled), reached once after the primary
\* attempt and once more, with nothing left to try, after the fallback.
FallbackDue(c, enabled) == c.stage = "primary" /\ c.result = Null /\ enabled

\* AIService.analyzeText resumes after an attempt: the fallback attempt on
\* the other backend if the primary one gave null and fallback is enabled,
\* else the end of the call.
AttemptDone(p) ==
  /\ call[p].pc = "attemptDone"
  /\ LET c == call[p]
     IN  IF FallbackDue(c, fallbackEnabled)
         THEN Apply(p, BeginAttempt(c, sessions, nextId, keyStats,
                                    OtherApi(c.apiType), "fallback"))
         ELSE Apply(p, Effect(
                ServiceEnd(IF c.stage = "fallback" /\ c.result # Null
                           THEN [c EXCEPT !.result.apiUsed = OtherApi(c.apiType)]
                           ELSE c),
                sessions, nextId, keyStats))
  /\ UNCHANGED <<fallbackEnabled, apis, now, analysisHistory, nextHistoryId,
                 started, fnVars, auxVars, timers>>

\* The caller of AIService.analyzeText resumes.  A direct caller has its
\* answer.  analyzeTextContent builds the ClarityImprovement, moves the
\* TextContent to Analyzed, records the analysis and returns the result;
\* on a failure it runs its catch block.
ServiceDone(p) ==
  /\ call[p].pc = "serviceDone"
  /\ LET c == call[p]
         built == createFromAIResponse(c.aiResponse, c.text)
     IN  IF c.entry = "service"
         THEN /\ call' = [call EXCEPT ![p].pc = "done",
                            ![p].outcome = IF c.outcome.kind = "threw" THEN c.outcome
                                           ELSE ReturnedResponse(c.aiResponse)]
              /\ UNCHANGED <<analysisHistory, nextHistoryId>>
         ELSE IF c.outcome.kind = "threw"
         THEN /\ call' = [call EXCEPT ![p] = CatchBlock(c, c.outcome.error)]
              /\ UNCHANGED <<analysisHistory, nextHistoryId>>
         ELSE IF ~c.aiResponse.success
         THEN \* setRejected() before the throw: from Analyzing it throws itself
              /\ call' = [call EXCEPT ![p] =
                   IF setRejected(c.tcState).error # "ok"
                   THEN CatchBlock(c, setRejected(c.tcState).error)
                   ELSE CatchBlock([c EXCEPT !.tcState = setRejected(c.tcState).state],
                                   IF c.aiResponse.error.message # ""
                                   THEN c.aiResponse.error.message
                                   ELSE "AI analysis failed")]
              /\ UNCHANGED <<analysisHistory, nextHistoryId>>
         ELSE IF ~built.ok
         THEN /\ call' = [call EXCEPT ![p] = CatchBlock(c, built.error)]
              /\ UNCHANGED <<analysisHistory, nextHistoryId>>
         ELSE IF setAnalyzed(c.tcState).error # "ok"
         THEN /\ call' = [call EXCEPT ![p] = CatchBlock(c, setAnalyzed(c.tcState).error)]
              /\ UNCHANGED <<analysisHistory, nextHistoryId>>
         ELSE /\ call' = [call EXCEPT ![p].pc = "done",
                            ![p].tcState = setAnalyzed(c.tcState).state,
                            ![p].outcome = ReturnedResult(AnalysisResult(c.text, built.value))]
              /\ analysisHistory' = _addToHistory(analysisHistory, c.text, built.value,
                                                  nextHistoryId)
              /\ nextHistoryId' = nextHistoryId + 1
  /\ UNCHANGED <<sessions, nextId, fallbackEnabled, apis, now, started,
                 keyStats, fnVars, auxVars, timers>>

\* TextAnalyzer.createAnalysisResult(analysisData): it has no suspension
\* point, so the call is one step.
CreateAnalysisResult(p, datas, maxCalls) ==
  /\ call[p].pc = "idle"
  /\ started < maxCalls
  /\ \E analysisData \in datas :
       LET built == createAnalysisResult(analysisData)
           c == [IdleCall EXCEPT !.pc = "done", !.entry = "create",
                                 !.text = analysisData.originalText]
       IN  IF built.ok
           THEN /\ call' = [call EXCEPT ![p] =
                     [c EXCEPT !.outcome =
                        ReturnedResult(AnalysisResult(analysisData.originalText,
                                                      built.value))]]
                /\ analysisHistory' = _addToHistory(analysisHistory,
                                        analysisData.originalText, built.value,
                                        nextHistoryId)
                /\ nextHistoryId' = nextHistoryId + 1
           ELSE /\ call' = [call EXCEPT ![p] = [c EXCEPT !.outcome = Threw(built.error)]]
                /\ UNCHANGED <<analysisHistory, nextHistoryId>>
  /\ started' = started + 1
  /\ UNCHANGED <<sessions, nextId, fallbackEnabled, apis, now, keyStats, fnVars, auxVars, timers>>

\* The caller takes the outcome; it may start another analysis.
Collect(p) ==
  /\ call[p].pc = "done"
  /\ call' = [call EXCEPT ![p] = IdleCall]
  /\ UNCHANGED <<sessions, nextId, fallbackEnabled, apis, now, analysisHistory,
                 nextHistoryId, started, keyStats, fnVars, auxVars, timers>>

\* The owner of the service switches the fallback (aiService.fallbackEnabled = b).
SetFallbackEnabled ==
  /\ fallbackEnabled' = ~fallbackEnabled
  /\ UNCHANGED <<sessions, nextId, apis, now, analysisHistory, nextHistoryId,
                 call, started, keyStats, fnVars, auxVars, timers>>

(***************************************************************************)
(* AIService.createSession and destroySession called directly, the clock,  *)
(* and the cleanup timers.                                                 *)
(***************************************************************************)
\* AIService._validateSessionRequest
_validateSessionRequest(apiType, parameters) ==
  IF apiType = "" THEN "Missing required parameter: apiType"
  ELSE IF apiType \notin ApiTypes THEN "Invalid API type"
  ELSE _validateParameters(parameters)

\* createSession(request) is called: up to its first suspension.
StartCreateSession(p, kinds, maxCalls) ==
  /\ call[p].pc = "idle"
  /\ started < maxCalls
  /\ \E apiType \in kinds, parameters \in SessionParameters :
       LET c == [IdleCall EXCEPT !.entry = "createSession", !.apiType = apiType,
                                 !.api = apiType, !.parameters = parameters]
           v == _validateSessionRequest(apiType, parameters)
       IN  IF v # "ok"
           THEN /\ call' = [call EXCEPT ![p] =
                             [c EXCEPT !.pc = "done", !.outcome = CreateSessionCatch(v)]]
                /\ UNCHANGED <<nextId, keyStats>>
           ELSE IF ~apis[apiType]
           THEN /\ call' = [call EXCEPT ![p] =
                             [c EXCEPT !.pc = "done", !.sessionId = nextId, !.probes = 1,
                                       !.outcome = ReturnedResponse(_createErrorResponse(
                                          "API_NOT_AVAILABLE",
                                          (IF apiType = "rewriter" THEN "Rewriter" ELSE "Prompt")
                                            \o " API is not available"))]]
                /\ nextId' = nextId + 1
                /\ UNCHANGED keyStats
           ELSE /\ call' = [call EXCEPT ![p] =
                             [c EXCEPT !.pc = "creating", !.sessionId = nextId,
                                       !.probes = 1, !.creates = 1]]
                /\ nextId' = nextId + 1
                /\ keyStats' = CreateCalled(keyStats, CacheKey(apiType, parameters))
  /\ started' = started + 1
  /\ UNCHANGED <<sessions, fallbackEnabled, apis, now, analysisHistory, nextHistoryId,
                 fnVars, auxVars, timers>>

\* A variant of the deletion that leaves the table as it is.
SessionKept(sess, id) == sess

\* sessions.delete(sessionId)
DeleteSession(sess, id) == SelectSeq(sess, LAMBDA e : e.id # id)

\* destroySession(sessionId) is called, for an id the service has handed
\* out or for one it never has (0): false for an id not in the table; else
\* the session's destroy() is awaited, if it has one, and the entry deleted.
StartDestroySession(p, maxCalls) ==
  /\ call[p].pc = "idle"
  /\ started < maxCalls
  /\ \E id \in 0..(nextId - 1), hasDestroy \in BOOLEAN :
       LET c == [IdleCall EXCEPT !.entry = "destroySession", !.sessionId = id]
       IN  IF SessionIndex(sessions, id) = 0
           THEN /\ call' = [call EXCEPT ![p] =
                             [c EXCEPT !.pc = "done", !.outcome = ReturnedValue("false")]]
                /\ UNCHANGED <<sessions, destroyed>>
           ELSE IF hasDestroy
           THEN /\ call' = [call EXCEPT ![p] = [c EXCEPT !.pc = "destroying"]]
                /\ UNCHANGED <<sessions, destroyed>>
           ELSE /\ call' = [call EXCEPT ![p] =
                             [c EXCEPT !.pc = "done", !.outcome = ReturnedValue("true")]]
                /\ sessions' = DeleteSession(sessions, id)
                /\ destroyed' = destroyed \cup {id}
  /\ started' = started + 1
  /\ UNCHANGED <<nextId, fallbackEnabled, apis, now, analysisHistory, nextHistoryId,
                 keyStats, fnVars, contents, tcCall, cs, cleanupCall, batch, timers>>

\* The session's destroy() settles, by returning or by throwing (which is
\* logged): the entry is deleted and destroySession returns true.
DestroySettles(p) ==
  /\ call[p].pc = "destroying"
  /\ \E threw \in BOOLEAN :
       call' = [call EXCEPT ![p].pc = "done",
                            ![p].stage = IF threw THEN "destroy threw" ELSE "destroy returned",
                            ![p].outcome = ReturnedValue("true")]
  /\ sessions' = DeleteSession(sessions, call[p].sessionId)
  /\ destroyed' = destroyed \cup {call[p].sessionId}
  /\ UNCHANGED <<nextId, fallbackEnabled, apis, now, analysisHistory, nextHistoryId,
                 started, keyStats, fnVars, contents, tcCall, cs, cleanupCall, batch, timers>>

\* Time passes with nothing running.
TimePasses(pauses) ==
  /\ \E d \in pauses :
       /\ now + d <= MaxTimeouts * sessionTimeout
       /\ now' = now + d
  /\ UNCHANGED <<sessions, nextId, fallbackEnabled, apis, analysisHistory,
                 nextHistoryId, call, started, keyStats, fnVars, auxVars, timers>>

\* A variant of the timer's test that holds for every session.
AlwaysExpired(sessionData) == TRUE

\* The test of the timer's callback: Date.now() - lastUsed > sessionTimeout
Expired(sessionData) == now - sessionData.lastUsed > sessionTimeout

\* The callback _scheduleSessionCleanup has set runs, at its time or later:
\* it calls destroySession, without awaiting it, if the session is still
\* in the table and was last used more than sessionTimeout ago.
TimerFires(t) ==
  /\ t \in timers
  /\ t.pc = "set"
  /\ now >= t.due
  /\ LET i == SessionIndex(sessions, t.id)
     IN  IF i # 0 /\ Expired(sessions[i])
         THEN \E hasDestroy \in BOOLEAN :
                IF hasDestroy
                THEN /\ timers' = (timers \ {t}) \cup {[t EXCEPT !.pc = "destroying"]}
                     /\ UNCHANGED <<sessions, destroyed>>
                ELSE /\ timers' = timers \ {t}
                     /\ sessions' = DeleteSession(sessions, t.id)
                     /\ destroyed' = destroyed \cup {t.id}
         ELSE /\ timers' = timers \ {t}
              /\ UNCHANGED <<sessions, destroyed>>
  /\ UNCHANGED <<nextId, fallbackEnabled, apis, now, analysisHistory, nextHistoryId,
                 call, started, keyStats, fnVars, contents, tcCall, cs, cleanupCall, batch>>

\* The destroy() awaited by a destroySession call a timer has started
\* settles: the entry is deleted.
ReapSettles(t) ==
  /\ t \in timers
  /\ t.pc = "destroying"
  /\ timers' = timers \ {t}
  /\ sessions' = DeleteSession(sessions, t.id)
  /\ destroyed' = destroyed \cup {t.id}
  /\ UNCHANGED <<nextId, fallbackEnabled, apis, now, analysisHistory, nextHistoryId,
                 call, started, keyStats, fnVars, contents, tcCall, cs, cleanupCall, batch>>

(***************************************************************************)
(* AIService.cleanup(): it takes the ids of the table and calls            *)
(* destroySession for each of them at once; each call deletes its entry    *)
(* when the session's destroy() has settled (at once for a session without *)
(* destroy()), and cleanup resolves when all of them have returned.        *)
(***************************************************************************)
NoCleanup == [pc |-> "idle", sessionIds |-> {}, pending |-> {}]

RECURSIVE DeleteSessions(_, _)
DeleteSessions(sess, ids) ==
  IF ids = {} THEN sess
  ELSE LET id == CHOOSE i \in ids : TRUE
       IN  DeleteSessions(DeleteSession(sess, id), ids \ {id})

\* cleanup() is called: up to its await of Promise.all.
StartCleanup ==
  /\ cleanupCall.pc = "idle"
  /\ LET sessionIds == {sessions[i].id : i \in 1..Len(sessions)}
     IN  \E awaited \in SUBSET sessionIds :
           /\ cleanupCall' = [pc |-> IF awaited = {} THEN "resolved" ELSE "running",
                              sessionIds |-> sessionIds, pending |-> awaited]
           /\ sessions' = DeleteSessions(sessions, sessionIds \ awaited)
           /\ destroyed' = destroyed \cup (sessionIds \ awaited)
  /\ UNCHANGED <<nextId, fallbackEnabled, apis, now, analysisHistory, nextHistoryId,
                 call, started, keyStats, fnVars, contents, tcCall, cs, batch, timers>>

\* The destroy() awaited by one of cleanup's destroySession calls settles,
\* by returning or by throwing: the entry is deleted, and cleanup resolves
\* if this was the last of its calls.
CleanupDestroySettles(id) ==
  /\ cleanupCall.pc = "running"
  /\ id \in cleanupCall.pending
  /\ sessions' = DeleteSession(sessions, id)
  /\ destroyed' = destroyed \cup {id}
  /\ cleanupCall' = [cleanupCall EXCEPT !.pending = @ \ {id},
                                        !.pc = IF @ = "running" /\ cleanupCall.pending = {id}
                                               THEN "resolved" ELSE @]
  /\ UNCHANGED <<nextId, fallbackEnabled, apis, now, analysisHistory, nextHistoryId,
                 call, started, keyStats, fnVars, contents, tcCall, cs, batch, timers>>

\* The destroy() operations invoked on the session and not yet settled: by
\* destroySession calls of the callers, of the timers and of cleanup().
DestroysInFlight(id) ==
  Cardinality({p \in Slots : call[p].pc = "destroying" /\ call[p].sessionId = id})
    + Cardinality({t \in timers : t.pc = "destroying" /\ t.id = id})
    + (IF id \in cleanupCall.pending THEN 1 ELSE 0)

(***************************************************************************)
(* The background script: an ANALYZE_TEXT message.                         *)
(***************************************************************************)
\* A variant that reports every analysis as a success.
AlwaysSuccess(outcome) == [success |-> TRUE, result |-> outcome.result, error |-> ""]

\* What _handleAnalyzeText returns: the result of the analysis, or the
\* message of the error it threw.
_handleAnalyzeText(outcome) ==
  IF outcome.kind = "returned"
  THEN [success |-> TRUE, result |-> outcome.result, error |-> ""]
  ELSE [success |-> FALSE, result |-> NoResult, error |-> outcome.error]

\* _handleMessage receives an ANALYZE_TEXT message whose payload carries a
\* text and the client's preferences: _handleAnalyzeText makes them the
\* UserPreferences of the script and calls TextAnalyzer.analyzeText.
ReceiveAnalyzeText(p, texts, tones, maxCalls) ==
  /\ call[p].pc = "idle"
  /\ started < maxCalls
  /\ \E text \in texts, tone \in tones :
       LET req == _createAnalysisRequest("", tone, TRUE)
           c == [IdleCall EXCEPT !.entry = "background", !.text = text,
                                 !.apiType = req.apiType,
                                 !.parameters = req.parameters]
       IN  Apply(p, AnalyzerBegin(c, sessions, nextId, keyStats))
  /\ started' = started + 1
  /\ UNCHANGED <<fallbackEnabled, apis, now, analysisHistory, nextHistoryId, fnVars,
                 auxVars, timers>>

\* The analysis has ended: _handleAnalyzeText resumes and returns, and
\* _handleMessage passes what it returned to sendResponse.
SendResponse(p) ==
  /\ call[p].entry = "background"
  /\ call[p].pc = "done"
  /\ call' = [call EXCEPT ![p].pc = "responded",
                          ![p].responses = Append(@, _handleAnalyzeText(call[p].outcome))]
  /\ UNCHANGED <<sessions, nextId, fallbackEnabled, apis, now, analysisHistory,
                 nextHistoryId, started, keyStats, fnVars, auxVars, timers>>

\* The handler of the message is done; the next message may come.
MessageDone(p) ==
  /\ call[p].pc = "responded"
  /\ call' = [call EXCEPT ![p] = IdleCall]
  /\ UNCHANGED <<sessions, nextId, fallbackEnabled, apis, now, analysisHistory,
                 nextHistoryId, started, keyStats, fnVars, auxVars, timers>>

(***************************************************************************)
(* TextAnalyzer.analyzeBatch.  The analyses of a window run in the callers' *)
(* slots 1, 2, ... of call, in the order of the items; each is wrapped in  *)
(* the async function that turns its end into the item's outcome.          *)
(***************************************************************************)
NoBatch ==
  [pc |-> "idle", items |-> << >>, maxConcurrent |-> 0, i |-> 0,
   batchResults |-> << >>, results |-> << >>,
   \* per item: "pending", "running" (analyzeText called, outcome not yet
   \* produced) or "finished"
   status |-> << >>]

\* An entry of batchResults whose promise has not settled.
Unsettled == [success |-> FALSE, index |-> -1, result |-> NoResult, error |-> "", originalItem |-> -1]

\* A variant that reports every outcome as a success.
FailureUnrecorded(i, index, c, item) ==
  [success |-> TRUE, index |-> i + index,
   result |-> c.outcome.result, error |-> "", originalItem |-> item]

\* A variant that numbers an outcome by its place in the window.
OutcomeAtWindowIndex(i, index, c, item) ==
  [success |-> c.outcome.kind = "returned", index |-> index,
   result |-> c.outcome.result, error |-> c.outcome.error, originalItem |-> item]

\* What the function mapped over the window returns for one item: the
\* result of its analysis, or the message of the error it threw.
ItemOutcome(i, index, c, item) ==
  [success |-> c.outcome.kind = "returned", index |-> i + index,
   result |-> c.outcome.result, error |-> c.outcome.error, originalItem |-> item]

\* Array.prototype.slice's reading of a bound: a negative one counts from
\* the end, and both are kept within the array.
SliceBound(k, len) == IF k < 0 THEN (IF len + k < 0 THEN 0 ELSE len + k) ELSE Min(k, len)

\* textItems.slice(i, i + maxConcurrent), as the positions it takes.
BatchSlice(b) ==
  (SliceBound(b.i, Len(b.items)) + 1)..SliceBound(b.i + b.maxConcurrent, Len(b.items))

\* batch.map(async ...): the analyses of the window are started one after
\* the other, each running to its first suspension.
RECURSIVE StartItems(_, _, _)
StartItems(k, b, e) ==
  IF b.i + k \notin BatchSlice(b) THEN e
  ELSE LET req == _createAnalysisRequest("rewriter", "neutral", FALSE)
           c == [IdleCall EXCEPT !.entry = "analyzer", !.text = b.items[b.i + k],
                                 !.apiType = req.apiType, !.parameters = req.parameters]
           eff == AnalyzerBegin(c, e.sessions, e.nextId, e.keyStats)
       IN  StartItems(k + 1, b,
                      [calls |-> [e.calls EXCEPT ![k] = eff.call],
                       sessions |-> eff.sessions, nextId |-> eff.nextId,
                       keyStats |-> eff.keyStats])

\* One round of the for loop up to its await of Promise.all.
BeginWindow(b) ==
  LET e == StartItems(1, b, [calls |-> call, sessions |-> sessions,
                             nextId |-> nextId, keyStats |-> keyStats])
  IN  /\ call' = e.calls
      /\ sessions' = e.sessions
      /\ nextId' = e.nextId
      /\ keyStats' = e.keyStats
      /\ batch' = [b EXCEPT !.pc = "window",
                     !.batchResults = [k \in 1..Cardinality(BatchSlice(b)) |-> Unsettled],
                     !.status = [n \in 1..Len(b.items) |->
                                  IF n \in BatchSlice(b) THEN "running" ELSE @[n]]]

\* analyzeBatch(textItems, {maxConcurrent}) is called: no item, or the
\* first window.
StartBatch(texts, sizes, options) ==
  /\ batch.pc = "idle"
  /\ \A p \in Slots : call[p].pc = "idle"
  /\ \E n \in sizes, option \in options :
       \E items \in [1..n -> texts] :
         LET maxConcurrent == IF option = 0 THEN DefaultMaxConcurrent ELSE option
             b == [NoBatch EXCEPT !.items = items, !.maxConcurrent = maxConcurrent,
                                  !.status = [k \in 1..n |-> "pending"]]
         IN  IF n = 0
             THEN /\ batch' = [b EXCEPT !.pc = "returned"]
                  /\ UNCHANGED <<call, sessions, nextId, keyStats>>
             ELSE BeginWindow(b)
  /\ UNCHANGED <<fallbackEnabled, apis, now, analysisHistory, nextHistoryId, started,
                 fnVars, contents, tcCall, cs, cleanupCall, timers, destroyed>>

\* The function mapped over the window resumes when its analysis has
\* ended, and returns the item's outcome.
ItemSettles(p) ==
  /\ batch.pc = "window"
  /\ call[p].pc = "done"
  /\ batch' = [batch EXCEPT
                 !.batchResults[p] = ItemOutcome(batch.i, p - 1, call[p], batch.i + p),
                 !.status[batch.i + p] = "finished"]
  /\ call' = [call EXCEPT ![p] = IdleCall]
  /\ UNCHANGED <<sessions, nextId, fallbackEnabled, apis, now, analysisHistory,
                 nextHistoryId, started, keyStats, fnVars, contents, tcCall, cs, cleanupCall, timers, destroyed>>

\* Promise.all has settled: the window's outcomes are pushed; the loop
\* pauses before the next window, or analyzeBatch returns.
WindowDone ==
  /\ batch.pc = "window"
  /\ \A k \in DOMAIN batch.batchResults : batch.batchResults[k] # Unsettled
  /\ batch' = [batch EXCEPT
                 !.results = @ \o batch.batchResults,
                 !.pc = IF batch.i + batch.maxConcurrent < Len(batch.items)
                        THEN "delay" ELSE "returned"]
  /\ UNCHANGED <<svcVars, fnVars, contents, tcCall, cs, cleanupCall, destroyed>>

\* The pause has passed.
DelayPasses ==
  /\ batch.pc = "delay"
  /\ now' = now + BatchDelay
  /\ batch' = [batch EXCEPT !.pc = "next"]
  /\ UNCHANGED <<sessions, nextId, fallbackEnabled, apis, analysisHistory,
                 nextHistoryId, call, started, keyStats, fnVars, contents, tcCall, cs, cleanupCall, timers, destroyed>>

\* The loop resumes after the pause with the next window.
NextWindow ==
  /\ batch.pc = "next"
  /\ batch.i + batch.maxConcurrent >= -MaxDescent
  /\ BeginWindow([batch EXCEPT !.i = @ + batch.maxConcurrent])
  /\ UNCHANGED <<fallbackEnabled, apis, now, analysisHistory, nextHistoryId, started,
                 fnVars, contents, tcCall, cs, cleanupCall, timers, destroyed>>

(***************************************************************************)
(* TextContent objects on their own: the setters of lib/models/            *)
(* text-content.js and transitionTo of lib/models/TextContent.js, called   *)
(* in any order on objects that start in their constructor's state.        *)
(***************************************************************************)
Contents == 1..NumContents

\* new TextContent(...) of either class.
NewTextContent(cls) == [cls |-> cls, state |-> IF cls = "cjs" THEN "Created" ELSE "created"]

NoTcCall == [obj |-> 0, method |-> "", to |-> "", before |-> "", error |-> ""]

\* textContent.setAnalyzing(), .setAnalyzed(), .setAccepted() or .setRejected()
CallSetter(i) ==
  /\ contents[i].cls = "cjs"
  /\ \E method \in {"setAnalyzing", "setAnalyzed", "setAccepted", "setRejected"} :
       LET state == contents[i].state
           r == IF method = "setAnalyzing" THEN setAnalyzing(state)
                ELSE IF method = "setAnalyzed" THEN setAnalyzed(state)
                ELSE IF method = "setAccepted" THEN setAccepted(state)
                ELSE setRejected(state)
       IN  /\ contents' = [contents EXCEPT ![i].state = r.state]
           /\ tcCall' = [obj |-> i, method |-> method, to |-> "", before |-> state,
                         error |-> r.error]
  /\ UNCHANGED <<svcVars, fnVars, batch, destroyed, cs, cleanupCall>>

\* textContent.transitionTo(newState), for every state and for a name that
\* is no state.
CallTransitionTo(i) ==
  /\ contents[i].cls = "esm"
  /\ \E newState \in {"created", "analyzing", "analyzed", "accepted", "rejected",
                       "archived"} :
       LET r == transitionTo(contents[i].state, newState)
       IN  /\ contents' = [contents EXCEPT ![i].state = r.state]
           /\ tcCall' = [obj |-> i, method |-> "transitionTo", to |-> newState,
                         before |-> contents[i].state, error |-> r.error]
  /\ UNCHANGED <<svcVars, fnVars, batch, destroyed, cs, cleanupCall>>

(***************************************************************************)
(* The pure functions applied to one pair of original text and backend     *)
(* output: the response of a successful attempt, and the                   *)
(* ClarityImprovement built from it.                                       *)
(***************************************************************************)
NoFnResult == [response |-> Null, built |-> Thrown("")]

FnApply ==
  /\ fnPc = "input"
  /\ \E t \in Tick :
       LET response == AnalysisSuccess(fnOrig, fnOut, t, "rewriter")
       IN  fnResult' = [response |-> response,
                        built |-> createFromAIResponse(response, fnOrig)]
  /\ fnPc' = "applied"
  /\ UNCHANGED <<fnOrig, fnOut, svcVars, auxVars>>

FnReset ==
  /\ fnPc = "applied"
  /\ fnPc' = "input"
  /\ fnResult' = NoFnResult
  /\ UNCHANGED <<fnOrig, fnOut, svcVars, auxVars>>

(***************************************************************************)
(* UserPreferences: the preferred tone and the domain lists.  URLs and     *)
(* patterns are strings.                                                   *)
(***************************************************************************)
StartsWith(s, prefix) == Len(s) >= Len(prefix) /\ SubSeq(s, 1, Len(prefix)) = prefix
\* s.substring(k), k counted from 0
SubstringFrom(s, k) == IF k >= Len(s) THEN "" ELSE SubSeq(s, k + 1, Len(s))
EndsWith(s, suffix) == Len(s) >= Len(suffix) /\ SubstringFrom(s, Len(s) - Len(suffix)) = suffix

\* The part of s before the first of the given characters, all of s if
\* there is none.
Before(s, chars) ==
  LET at == {i \in 1..Len(s) : SubSeq(s, i, i) \in chars}
  IN  IF at = {} THEN s
      ELSE SubSeq(s, 1, (CHOOSE i \in at : \A j \in at : i <= j) - 1)

UpperLetters == "ABCDEFGHIJKLMNOPQRSTUVWXYZ"
LowerLetters == "abcdefghijklmnopqrstuvwxyz"

\* The lower-case letter of each upper-case letter.
LowerOf ==
  [ch \in {SubSeq(UpperLetters, i, i) : i \in 1..Len(UpperLetters)} |->
     LET i == CHOOSE i \in 1..Len(UpperLetters) : SubSeq(UpperLetters, i, i) = ch
     IN  SubSeq(LowerLetters, i, i)]

RECURSIVE LowerString(_)
LowerString(s) ==
  IF s = "" THEN ""
  ELSE LET ch == SubSeq(s, 1, 1)
       IN  (IF ch \in DOMAIN LowerOf THEN LowerOf[ch] ELSE ch)
           \o LowerString(SubstringFrom(s, 1))

\* new URL(url).hostname of an http(s) URL without user information: what
\* stands between the scheme and the path, query or fragment, without the
\* port, in lower case; "" where the constructor throws (no host).
UrlHostname(url) ==
  LET rest == SubstringFrom(url, IF StartsWith(url, "https://") THEN 8 ELSE 7)
  IN  LowerString(Before(Before(rest, {"/", "?", "#"}), {":"}))

\* UserPreferences._extractDomain; "" stands for null as well, both being
\* falsy to the caller and equal to no host.
_extractDomain(url) ==
  IF StartsWith(url, "http://") \/ StartsWith(url, "https://") THEN UrlHostname(url)
  ELSE IF Includes(url, ".") THEN Before(url, {"/"})
  ELSE url

_matchesDomainList(domain, domainList) ==
  \E i \in 1..Len(domainList) :
    LET pattern == domainList[i]
    IN  IF StartsWith(pattern, "*.") THEN EndsWith(domain, SubstringFrom(pattern, 2))
        ELSE IF StartsWith(pattern, "http")
             THEN _extractDomain(pattern) # "" /\ domain = _extractDomain(pattern)
             ELSE domain = pattern

\* A variant that asks the enabled list before the disabled one.
EnabledListFirst(prefs, url) ==
  LET domain == _extractDomain(url)
  IN  IF domain = "" THEN TRUE
      ELSE IF _matchesDomainList(domain, prefs.enabledDomains) THEN TRUE
      ELSE IF _matchesDomainList(domain, prefs.disabledDomains) THEN FALSE
      ELSE prefs.enabledDomains = << >>

isDomainEnabled(prefs, url) ==
  LET domain == _extractDomain(url)
  IN  IF domain = "" THEN TRUE
      ELSE IF _matchesDomainList(domain, prefs.disabledDomains) THEN FALSE
      ELSE IF Len(prefs.enabledDomains) = 0 THEN TRUE
      ELSE _matchesDomainList(domain, prefs.enabledDomains)

\* [a-zA-Z0-9-]
LabelChars ==
  LET all == UpperLetters \o LowerLetters \o "0123456789-"
  IN  {SubSeq(all, i, i) : i \in 1..Len(all)}

\* /^[a-zA-Z0-9-]+(\.[a-zA-Z0-9-]+)*$/
IsHostName(s) ==
  /\ s # ""
  /\ \A i \in 1..Len(s) : SubSeq(s, i, i) = "." \/ SubSeq(s, i, i) \in LabelChars
  /\ ~StartsWith(s, ".") /\ ~EndsWith(s, ".") /\ ~Includes(s, "..")

\* UserPreferences._isValidDomainPattern: a host name, with "*." before it
\* or not, or an http(s) URL of a host name with or without a path.
_isValidDomainPattern(domain) ==
  \/ IsHostName(IF StartsWith(domain, "*.") THEN SubstringFrom(domain, 2) ELSE domain)
  \/ /\ StartsWith(domain, "http://") \/ StartsWith(domain, "https://")
     /\ IsHostName(Before(SubstringFrom(domain, IF StartsWith(domain, "https://")
                                                THEN 8 ELSE 7), {"/"}))

\* new UserPreferences(preferences) as far as the tone and the domain lists
\* go; "" stands for a preferredTone that is undefined.  The other fields
\* take their defaults.
NewUserPreferences(preferences) ==
  LET tone == IF preferences.preferredTone = "" THEN "neutral"
              ELSE preferences.preferredTone
      bad(list) == {i \in 1..Len(list) : ~_isValidDomainPattern(list[i])}
      prefs == [preferredTone |-> tone, enabledDomains |-> preferences.enabledDomains,
                disabledDomains |-> preferences.disabledDomains]
  IN  IF tone \notin {"formal", "neutral", "casual"}
      THEN [ok |-> FALSE, prefs |-> prefs,
            error |-> "preferredTone must be one of: formal, neutral, casual"]
      ELSE IF bad(preferences.enabledDomains) # {}
      THEN [ok |-> FALSE, prefs |-> prefs, error |-> "Invalid domain pattern in enabledDomains"]
      ELSE IF bad(preferences.disabledDomains) # {}
      THEN [ok |-> FALSE, prefs |-> prefs, error |-> "Invalid domain pattern in disabledDomains"]
      ELSE [ok |-> TRUE, prefs |-> prefs, error |-> "ok"]

\* The preferences handed in, and the URLs asked about.
ToneInputs == {"", "formal", "neutral", "casual", "brisk", "constructor"}
DomainPatterns ==
  {"blocked.example.com", "*.example.com", "https://blocked.example.com/x", "no pattern"}
DomainLists == UNION {[1..n -> DomainPatterns] : n \in 0..MaxDomains}
Urls ==
  {"https://blocked.example.com", "http://Blocked.Example.com:8080/x?y",
   "blocked.example.com/x", "https://notexample.com/", "https://elsewhere.net#top",
   "https://"}

\* A UserPreferences is built from the preferences handed in and asked for
\* its AI parameters and about the URL; the same preferences, as a plain
\* object, go through TextAnalyzer._getDefaultParameters.
PrefsApply ==
  /\ fnPc = "input"
  /\ LET built == NewUserPreferences(fnOrig)
     IN  fnResult' =
           [ok |-> built.ok, error |-> built.error,
            defaultParameters |-> _getDefaultParameters(fnOrig.preferredTone),
            aiParameters |-> IF built.ok THEN getAIParameters(built.prefs.preferredTone)
                             ELSE << >>,
            isDomainEnabled |-> built.ok /\ isDomainEnabled(built.prefs, fnOut)]
  /\ fnPc' = "applied"
  /\ UNCHANGED <<fnOrig, fnOut, svcVars, auxVars>>

(***************************************************************************)
(* TextAnalyzer.assessAnalysisQuality.  Confidence scores are on the scale *)
(* of ConfOne.  A null or undefined result takes the branch of an empty    *)
(* improvedText.                                                           *)
(***************************************************************************)
\* text-analyzer.js:295, the confidence 0.6 below which the quality is poor.
PoorConfidence == 600000
\* text-analyzer.js:298, the confidence 0.8 below which it is medium.
MediumConfidence == 800000
\* text-analyzer.js:304, the processing time in ms above which it is slow.
SlowProcessingTime == 2000

\* The level of a confidence score, with the two thresholds taken inclusively.
QualityOfConfidenceInclusive(confidenceScore) ==
  IF confidenceScore <= PoorConfidence THEN "poor"
  ELSE IF confidenceScore <= MediumConfidence THEN "medium"
  ELSE "good"

\* The level the confidence score alone gives.
QualityOfConfidence(confidenceScore) ==
  IF confidenceScore < PoorConfidence THEN "poor"
  ELSE IF confidenceScore < MediumConfidence THEN "medium"
  ELSE "good"

\* lengthDifference / originalLength > 0.5 on doubles: x / 0 is Infinity
\* for x > 0 and NaN for x = 0.
SignificantLengthChange(originalLength, improvedLength) ==
  IF originalLength = 0 THEN improvedLength > 0
  ELSE 2 * Abs(originalLength - improvedLength) > originalLength

assessAnalysisQuality(analysisResult) ==
  IF analysisResult.improvedText = EmptyText
  THEN [quality |-> "poor", reasons |-> <<"No improved text provided">>]
  ELSE
    LET level == QualityOfConfidence(analysisResult.confidenceScore)
        unchanged == analysisResult.originalText = analysisResult.improvedText
    IN  [quality |-> IF unchanged THEN "poor" ELSE level,
         reasons |->
           (IF level = "poor" THEN <<"Low confidence score">>
            ELSE IF level = "medium" THEN <<"Medium confidence score">> ELSE << >>)
           \o (IF analysisResult.processingTime > SlowProcessingTime
               THEN <<"Slow processing time">> ELSE << >>)
           \o (IF unchanged THEN <<"No changes made to text">> ELSE << >>)
           \o (IF analysisResult.changes = << >>
               THEN <<"No specific changes documented">> ELSE << >>)
           \o (IF SignificantLengthChange(StrLen(analysisResult.originalText),
                                          StrLen(analysisResult.improvedText))
               THEN <<"Significant length change - may have altered meaning">>
               ELSE << >>)]

\* The analysis results handed to assessAnalysisQuality.
QualityTexts == {<<Run("a", 1)>>, <<Run("a", 2)>>, <<Run("a", 4)>>, <<Run("A", 1)>>}
QualityScores ==
  {0, PoorConfidence - 1, PoorConfidence, MediumConfidence - 1, MediumConfidence, ConfOne}
AnalysisResults ==
  [originalText : QualityTexts \cup {EmptyText},
   improvedText : QualityTexts \cup {EmptyText},
   confidenceScore : QualityScores,
   processingTime : {SlowProcessingTime, SlowProcessingTime + 1},
   changes : {<< >>, <<"clarity">>}]

\* assessAnalysisQuality(analysisResult)
QualityApply ==
  /\ fnPc = "input"
  /\ fnResult' = assessAnalysisQuality(fnOrig)
  /\ fnPc' = "applied"
  /\ UNCHANGED <<fnOrig, fnOut, svcVars, auxVars>>

\* The plain change objects and the analysis data handed to
\* createAnalysisResult.  As in _validateAnalysisData an absent field is "",
\* 0 or << >>.
PlainChanges ==
  [changeType : {"word-choice"}, originalPhrase : {<<Run("a", 1)>>},
   improvedPhrase : {<<Run("A", 1)>>}, reason : {"", "More precise word choice"},
   startPosition : {0, 1}, endPosition : {0, 2}]
AnalysisDatas ==
  [originalText : {<<Run("a", 1)>>, <<Run("a", 2)>>},
   improvedText : {<<Run("A", 1)>>, <<Run("a", 2)>>},
   improvementType : {"", "prompt"},
   confidenceScore : {0, ConfBase, ConfOne},
   changes : UNION {[1..n -> PlainChanges] : n \in 0..MaxChanges},
   processingTime : {0, 1}]

\* TextAnalyzer.createAnalysisResult(analysisData), called on a new
\* TextAnalyzer: what it returns or throws, and the history entry.
CreateFromData ==
  /\ fnPc = "input"
  /\ LET built == createAnalysisResult(fnOrig)
     IN  /\ fnResult' = built
         /\ IF built.ok
            THEN /\ analysisHistory' = _addToHistory(analysisHistory, fnOrig.originalText,
                                                     built.value, nextHistoryId)
                 /\ nextHistoryId' = nextHistoryId + 1
            ELSE UNCHANGED <<analysisHistory, nextHistoryId>>
  /\ fnPc' = "applied"
  /\ UNCHANGED <<fnOrig, fnOut, sessions, nextId, fallbackEnabled, apis, now, call,
                 started, keyStats, timers, auxVars>>

(***************************************************************************)
(* TextContent objects and their word count: the constructor of either     *)
(* class, createFromElement and fromJSON.  The field type and the field    *)
(* context are valid throughout.                                           *)
(***************************************************************************)
\* text.split(/\s+/): the pieces between the runs of whitespace.
RECURSIVE SplitSpaces(_)
SplitSpaces(text) ==
  IF text = << >> THEN <<EmptyText>>
  ELSE LET pieces == SplitSpaces(Tail(text))
       IN  IF IsSpace(Head(text).c) THEN <<EmptyText>> \o pieces
           ELSE <<Concat(<<Head(text)>>, Head(pieces))>> \o Tail(pieces)

\* text.trim().split(/\s+/).filter(word => word.length > 0).length
_calculateWordCount(text) ==
  IF text = EmptyText THEN 0
  ELSE Len(SelectSeq(SplitSpaces(Trim(text)), LAMBDA word : StrLen(word) > 0))

\* What obtaining a TextContent gives: the object, or the message thrown.
NoTextContent == [ok |-> FALSE, error |-> "", originalText |-> EmptyText, wordCount |-> 0]

\* new TextContent(...) of text-content.js ("cjs") or TextContent.js ("esm")
ConstructTextContent(cls, originalText) ==
  IF originalText = EmptyText
  THEN [NoTextContent EXCEPT !.error =
          IF cls = "cjs" THEN "originalText must not be empty (minimum 1 character)"
          ELSE "Original text is required and must be a string"]
  ELSE IF StrLen(originalText) > MaxTextLength
  THEN [NoTextContent EXCEPT !.error =
          IF cls = "cjs"
          THEN "originalText maximum length is 5000 characters (based on AI model limits)"
          ELSE "Original text exceeds maximum length of 5000 characters"]
  ELSE [ok |-> TRUE, error |-> "", originalText |-> originalText,
        wordCount |-> _calculateWordCount(originalText)]

\* TextContent.fromJSON(data): text-content.js takes the word count from
\* the data, TextContent.js keeps the one its constructor computed.
fromJSON(cls, data) ==
  LET textContent == ConstructTextContent(cls, data.originalText)
  IN  IF textContent.ok /\ cls = "cjs"
      THEN [textContent EXCEPT !.wordCount = data.wordCount]
      ELSE textContent

\* The stored objects handed to fromJSON; the constructor and
\* createFromElement take the text alone.
StoredContents == [originalText : Texts, wordCount : 0..MaxRuns]

\* A TextContent is obtained in one of the ways the two classes offer.
ObtainTextContent ==
  /\ fnPc = "input"
  /\ \E how \in {"constructor", "createFromElement", "fromJSON"}, cls \in {"cjs", "esm"} :
       /\ how = "createFromElement" => cls = "cjs"
       /\ fnOut' = <<how, cls>>
       /\ fnResult' = IF how = "fromJSON" THEN fromJSON(cls, fnOrig)
                      ELSE ConstructTextContent(cls, fnOrig.originalText)
  /\ fnPc' = "applied"
  /\ UNCHANGED <<fnOrig, svcVars, auxVars>>

(***************************************************************************)
(* The AIService of the ES module lib/services/AIService.js.  Its          *)
(* analyzeText keeps no session: each attempt creates a session, uses it   *)
(* and destroys it, so that a call is a function of the request and of     *)
(* how far each backend lets an attempt get.                               *)
(***************************************************************************)
\* How an attempt on a backend goes: capabilities() says it is not readily
\* available; create(), rewrite()/prompt() or destroy() throws; all work.
BackendOutcomes == {"unavailable", "createFails", "callFails", "destroyFails", "ok"}

validateTextAnalysisRequest(request) ==
  IF request.text = EmptyText THEN "Text is required"
  ELSE IF StrLen(request.text) > MaxTextLength THEN "Text exceeds maximum length"
  ELSE IF request.apiType \notin {"rewriter", "prompt"} THEN "Invalid API type"
  ELSE "ok"

_getErrorCode(message) ==
  IF Includes(message, "not available") THEN "API_UNAVAILABLE"
  ELSE IF Includes(message, "session") THEN "SESSION_FAILED"
  ELSE IF Includes(message, "length") THEN "TEXT_TOO_LONG"
  ELSE "PROCESSING_ERROR"

\* _analyzeWithRewriter / _analyzeWithPrompt: the backend of the result,
\* "null" for null.
AnalyzeWith(api, backends) == IF backends[api] = "ok" THEN api ELSE "null"

\* AIService.analyzeText(request): the backends attempted in order, and
\* what the call throws or returns.
AIService_analyzeText(request, backends) ==
  IF validateTextAnalysisRequest(request) # "ok"
  THEN [attempts |-> << >>, threw |-> validateTextAnalysisRequest(request),
        success |-> FALSE, apiUsed |-> "", code |-> ""]
  ELSE
    LET first == AnalyzeWith(request.apiType, backends)
        fallsBack == first = "null" /\ request.apiType = "rewriter"
        result == IF fallsBack THEN AnalyzeWith("prompt", backends) ELSE first
    IN  [attempts |-> IF fallsBack THEN <<request.apiType, "prompt">>
                      ELSE <<request.apiType>>,
         threw |-> "",
         success |-> result # "null",
         apiUsed |-> IF result # "null" THEN result ELSE "",
         code |-> IF result # "null" THEN "" ELSE _getErrorCode("Both AI APIs failed")]

\* AIService.destroyAISession(sessionId) on a table holding the sessions
\* ids, whose destroy() throws or returns: the table after it, and the
\* value returned.
destroyAISession(ids, sessionId, destroyThrows) ==
  IF sessionId \notin ids THEN [sessions |-> ids, returned |-> FALSE, destroyCalled |-> FALSE]
  ELSE IF destroyThrows THEN [sessions |-> ids, returned |-> FALSE, destroyCalled |-> TRUE]
  ELSE [sessions |-> ids \ {sessionId}, returned |-> TRUE, destroyCalled |-> TRUE]

\* analyzeText(request) of the ES module is called.
EsmAnalyzeText ==
  /\ fnPc = "input"
  /\ \E text \in {EmptyText, <<Run("a", 1)>>, <<Run("a", MaxTextLength + 1)>>},
        apiType \in ApiTypes \cup {"summarizer"},
        backends \in [ApiTypes -> BackendOutcomes] :
       LET request == [text |-> text, apiType |-> apiType]
       IN  /\ fnOrig' = [request |-> request, backends |-> backends]
           /\ fnResult' = AIService_analyzeText(request, backends)
  /\ fnOut' = "analyzeText"
  /\ fnPc' = "applied"
  /\ UNCHANGED <<svcVars, auxVars>>

\* destroyAISession(sessionId) of the ES module is called.
EsmDestroyAISession ==
  /\ fnPc = "input"
  /\ \E ids \in SUBSET (1..NumEsmSessions), sessionId \in 1..(NumEsmSessions + 1),
        destroyThrows \in BOOLEAN :
       /\ fnOrig' = [sessions |-> ids, sessionId |-> sessionId,
                     destroyThrows |-> destroyThrows]
       /\ fnResult' = destroyAISession(ids, sessionId, destroyThrows)
  /\ fnOut' = "destroyAISession"
  /\ fnPc' = "applied"
  /\ UNCHANGED <<svcVars, auxVars>>

(***************************************************************************)
(* Specifications.                                                         *)
(***************************************************************************)
\* The state after construction; which backends the browser offers is fixed
\* per behaviour.
SvcInit(offered) ==
  /\ sessions = << >>
  /\ nextId = 1
  /\ fallbackEnabled = TRUE
  /\ apis \in offered
  /\ now = 0
  /\ analysisHistory = << >>
  /\ nextHistoryId = 1
  /\ call = [p \in Slots |-> IdleCall]
  /\ started = 0
  /\ keyStats = [k \in CacheKeys |-> [creates |-> 0, handles |-> {}]]
  /\ timers = {}

(***************************************************************************)
(* ExtensionState: the state of the extension on one page.  currentField   *)
(* is the number of the focused field, 0 for null; lastError is the code   *)
(* of the ErrorInfo, "" for null; currentAnalysis is the TextContent       *)
(* handed to startProcessing, named by its text, "" for null or undefined. *)
(* The session history and the processing queue play no part in the        *)
(* transitions and are left out.                                           *)
(***************************************************************************)
Fields == 1..NumFields

NewExtensionState ==
  [isActive |-> FALSE, currentField |-> 0, lastError |-> "", currentAnalysis |-> "",
   currentState |-> "Inactive"]

\* How a method ended: the object after it, and "ok" or the message thrown.
EsDone(es) == [es |-> es, error |-> "ok"]
EsThrew(es, message) == [es |-> es, error |-> message]

activate(es, fieldElement) ==
  IF es.isActive /\ es.currentField = fieldElement
  THEN EsDone(es)
  ELSE EsDone([es EXCEPT !.isActive = TRUE, !.currentField = fieldElement,
                         !.currentState = "Active", !.lastError = ""])

deactivate(es) ==
  EsDone([es EXCEPT !.isActive = FALSE, !.currentField = 0, !.currentState = "Inactive"])

startProcessing(es, textContent) ==
  IF ~es.isActive
  THEN EsThrew(es, "Cannot start processing when extension is inactive")
  ELSE EsDone([es EXCEPT !.currentState = "Processing", !.currentAnalysis = textContent,
                         !.lastError = ""])

completeProcessing(es) ==
  IF es.currentState # "Processing"
  THEN EsThrew(es, "Cannot complete processing from state: " \o es.currentState)
  ELSE EsDone([es EXCEPT !.currentState = "Completed", !.currentAnalysis = ""])

setError(es, code) == EsDone([es EXCEPT !.lastError = code, !.currentState = "Error"])

(***************************************************************************)
(* ClarityOverlay, as far as the content script uses it: whether its DOM   *)
(* node exists, whether it is visible, what its content area shows, and    *)
(* currentAnalysisResult ("" for null, else the improved text).            *)
(***************************************************************************)
NewClarityOverlay ==
  [created |-> FALSE, isVisible |-> FALSE, content |-> "none", result |-> ""]

show(overlay) ==
  [created |-> TRUE, isVisible |-> TRUE, content |-> "initial", result |-> ""]

hide(overlay) ==
  IF overlay.created /\ overlay.isVisible
  THEN [overlay EXCEPT !.isVisible = FALSE]
  ELSE overlay

\* showLoading, showError and showEmpty
showState(overlay, state) ==
  IF overlay.created THEN [overlay EXCEPT !.content = state] ELSE overlay

updateWithAnalysisResult(overlay, improvedText) ==
  IF overlay.created /\ overlay.isVisible
  THEN [overlay EXCEPT !.result = improvedText, !.content = "result"]
  ELSE [overlay EXCEPT !.result = improvedText]

(***************************************************************************)
(* ContentScript.  The text of the field is "" (empty), "draft" (what the  *)
(* user wrote) or "clear" (what the backend proposes).  detectField and    *)
(* replaceText suspend on promises that are already settled, so that each  *)
(* handler runs in one piece up to its await of the background script's    *)
(* answer.                                                                 *)
(***************************************************************************)
NoEsCall == [method |-> "", before |-> "", error |-> "ok"]

NewContentScript ==
  [es |-> NewExtensionState, esCall |-> NoEsCall, overlay |-> NewClarityOverlay,
   fieldText |-> "draft", processingInProgress |-> FALSE, pc |-> "idle",
   \* the messages handed to chrome.runtime.sendMessage, the clicks on the
   \* overlay's buttons, and the decisions among them
   sent |-> << >>, clicks |-> 0, decisions |-> 0, lastDecision |-> "",
   \* the answers to ANALYZE_TEXT messages that have arrived
   answers |-> 0,
   \* the analyze requests that returned at the test of processingInProgress
   ignored |-> 0]

PageFrame == UNCHANGED <<svcVars, fnVars, contents, tcCall, batch, destroyed, cleanupCall>>

\* A method of the ExtensionState is called, in whatever state it is.
CallExtensionState ==
  /\ \E method \in {"activate", "deactivate", "startProcessing", "completeProcessing",
                     "setError"}, fieldElement \in Fields,
        textContent \in {"", "draft"}, code \in {"UNKNOWN_ERROR", "ANALYSIS_FAILED"} :
       LET r == CASE method = "activate" -> activate(cs.es, fieldElement)
                  [] method = "deactivate" -> deactivate(cs.es)
                  [] method = "startProcessing" -> startProcessing(cs.es, textContent)
                  [] method = "completeProcessing" -> completeProcessing(cs.es)
                  [] OTHER -> setError(cs.es, code)
       IN  cs' = [cs EXCEPT !.es = r.es,
                            !.esCall = [method |-> method, before |-> cs.es.currentState,
                                        error |-> r.error]]
  /\ PageFrame

\* _handleFieldDetected: the user focuses a field; the state is activated
\* and, depending on the preferences and the text, the overlay shown.
FieldDetected ==
  /\ \E element \in Fields, shown \in BOOLEAN :
       cs' = [cs EXCEPT !.es = activate(cs.es, element).es,
                        !.overlay = IF shown THEN show(@) ELSE @]
  /\ PageFrame

\* The user edits the text of the field.
UserEdits ==
  /\ \E text \in {"", "draft"} : text # cs.fieldText /\ cs' = [cs EXCEPT !.fieldText = text]
  /\ PageFrame

\* The catch and finally blocks of _handleAnalyzeRequest.
AnalyzeFailed(c, content, code) ==
  [c EXCEPT !.overlay = showState(@, content), !.es = setError(@, code).es,
            !.processingInProgress = FALSE, !.pc = "idle"]

\* A variant of the test that lets every request through.
NeverInProgress(c) == FALSE

\* The test at the head of _handleAnalyzeRequest.
InProgress(c) == c.processingInProgress

\* _handleAnalyzeRequest up to its await of the background script's
\* answer: the button "Analyze for Clarity" or the keyboard shortcut.  A
\* request made while another one is in progress returns at once.
AnalyzeRequested ==
  /\ cs.overlay.isVisible
  /\ cs.clicks < MaxClicks
  /\ LET c == [cs EXCEPT !.clicks = @ + 1, !.processingInProgress = TRUE,
                         !.overlay = showState(@, "loading")]
         processing == startProcessing(c.es, "")
     IN  cs' = IF InProgress(cs)
               THEN [cs EXCEPT !.clicks = @ + 1, !.ignored = @ + 1]
               ELSE IF c.fieldText = ""
               THEN [c EXCEPT !.overlay = showState(@, "empty"),
                              !.processingInProgress = FALSE]
               ELSE IF processing.error # "ok"
               THEN AnalyzeFailed(c, "error", "ANALYSIS_REQUEST_ERROR")
               ELSE [c EXCEPT !.es = processing.es, !.pc = "awaitingResponse",
                              !.sent = Append(@, [type |-> "ANALYZE_TEXT", action |-> ""])]
  /\ PageFrame

\* The background script answers (or the message fails): the rest of
\* _handleAnalyzeRequest.
ResponseArrives ==
  /\ cs.pc = "awaitingResponse"
  /\ \E answer \in {"success", "failure", "lastError"} :
       LET arrived == [cs EXCEPT !.answers = @ + 1]
           updated == [arrived EXCEPT !.overlay = updateWithAnalysisResult(@, "clear")]
           completed == completeProcessing(cs.es)
       IN  cs' = IF answer = "success" /\ completed.error = "ok"
                 THEN [updated EXCEPT !.es = completed.es,
                                      !.processingInProgress = FALSE, !.pc = "idle"]
                 ELSE IF answer = "success"
                 THEN AnalyzeFailed(updated, "error", "ANALYSIS_REQUEST_ERROR")
                 ELSE IF answer = "failure"
                 THEN AnalyzeFailed(arrived, "error", "ANALYSIS_FAILED")
                 ELSE AnalyzeFailed(arrived, "error", "ANALYSIS_REQUEST_ERROR")
  /\ PageFrame

\* The user decides on the displayed result by the button Accept or Reject:
\* _handleAcceptSuggestion / _handleRejectSuggestion.
SuggestionDecided ==
  /\ cs.overlay.isVisible
  /\ cs.overlay.content = "result"
  /\ cs.clicks < MaxClicks
  /\ \E action \in {"accept", "reject"} :
       LET c == [cs EXCEPT !.clicks = @ + 1, !.decisions = @ + 1,
                            !.lastDecision = action]
           completed == completeProcessing(c.es)
           message == [type |-> "USER_ACTION", action |-> action]
       IN  cs' = IF action = "accept"
                 THEN IF completed.error # "ok"
                      THEN [c EXCEPT !.fieldText = c.overlay.result,
                                     !.overlay = showState(@, "error")]
                      ELSE [c EXCEPT !.fieldText = c.overlay.result,
                                     !.es = completed.es, !.overlay = hide(@),
                                     !.sent = Append(@, message)]
                 ELSE IF completed.error # "ok"
                      THEN [c EXCEPT !.overlay = hide(@)]
                      ELSE [c EXCEPT !.overlay = hide(@), !.es = completed.es,
                                     !.sent = Append(@, message)]
  /\ PageFrame

\* The button Close: the overlay hides itself and calls _handleCloseOverlay.
CloseOverlay ==
  /\ cs.overlay.isVisible
  /\ cs' = [cs EXCEPT !.overlay = hide(hide(@)), !.es = deactivate(@).es]
  /\ PageFrame

\* The state outside AIService and TextAnalyzer where it plays no part.
AuxIdle ==
  /\ contents = [i \in Contents |-> NewTextContent("cjs")]
  /\ tcCall = NoTcCall
  /\ batch = NoBatch
  /\ destroyed = {}
  /\ cs = NewContentScript
  /\ cleanupCall = NoCleanup

FnIdle ==
  /\ fnPc = "idle"
  /\ fnOrig = EmptyText
  /\ fnOut = EmptyText
  /\ fnResult = NoFnResult

\* The texts callers submit and backends answer in SpecCall: empty, one
\* character, 51 characters, 5001 characters; a backend may also echo.
SampleTexts ==
  {EmptyText, <<Run("a", 1)>>, <<Run("a", PhraseLimit + 1)>>,
   <<Run("a", MaxTextLength + 1)>>}
SampleOutputs ==
  {<<Run("a", 1)>>, <<Run("a", PhraseLimit + 1)>>,
   <<Run("a", 1), Run(" ", 1), Run("A", 1)>>, <<Run("a", PhraseLimit + 1), Run(" ", 1)>>}

\* The text and the answer of the specifications about sessions and history.
ConcTexts == {<<Run("a", 1)>>}
ConcOutputs == {<<Run("a", 1), Run(" ", 1), Run("A", 1)>>}

\* Analysis data handed to createAnalysisResult: complete, without changes,
\* without a processing time, with a confidence above 1.
GoodChange ==
  [changeType |-> "clarity", originalPhrase |-> <<Run("a", 1)>>,
   improvedPhrase |-> <<Run("A", 1)>>, reason |-> "", startPosition |-> 0,
   endPosition |-> 0]
GoodData ==
  [originalText |-> <<Run("a", 1)>>, improvedText |-> <<Run("A", 1)>>,
   improvementType |-> "", confidenceScore |-> 0, changes |-> <<GoodChange>>,
   processingTime |-> 1]
SampleData ==
  {GoodData,
   [GoodData EXCEPT !.changes = << >>],
   [GoodData EXCEPT !.processingTime = 0],
   [GoodData EXCEPT !.confidenceScore = ConfOne + 1]}

AnyApis == [ApiTypes -> BOOLEAN]
BothApis == {[a \in ApiTypes |-> TRUE]}
RewriterOnly == {[a \in ApiTypes |-> a = "rewriter"]}

Init == SvcInit(AnyApis) /\ FnIdle /\ AuxIdle

\* Concurrent analyses, one per caller, of one text against one AIService
\* and one TextAnalyzer: the analyses of an analyzeBatch window.
Next ==
  \E p \in Procs :
    \/ StartAnalysis(p, {"analyzer"}, ConcTexts, Tones, NumProcs)
    \/ CreateSettles(p, Instant)
    \/ SessionCreated(p)
    \/ CallBackend(p)
    \/ BackendSettles(p, ConcOutputs, Tick)
    \/ BackendRejects(p, Instant)
    \/ AttemptDone(p)
    \/ ServiceDone(p)

Spec == Init /\ [][Next]_vars

\* One analysis from its start to its end, on texts of every kind, with the
\* fallback switched on or off.
CallNext ==
  \/ StartAnalysis(1, Entries, SampleTexts, Tones, 1)
  \/ CreateSettles(1, Elapsed)
  \/ SessionCreated(1)
  \/ CallBackend(1)
  \/ BackendSettles(1, SampleOutputs, Elapsed)
  \/ BackendRejects(1, Elapsed)
  \/ AttemptDone(1)
  \/ ServiceDone(1)
  \/ SetFallbackEnabled

SpecCall == Init /\ [][CallNext]_vars

\* One caller, one call after the other: analyses and createAnalysisResult.
SeqNext ==
  \/ StartAnalysis(1, Entries, ConcTexts, Tones, MaxSeqCalls)
  \/ CreateSettles(1, Instant)
  \/ SessionCreated(1)
  \/ CallBackend(1)
  \/ BackendSettles(1, ConcOutputs, Tick)
  \/ BackendRejects(1, Instant)
  \/ AttemptDone(1)
  \/ ServiceDone(1)
  \/ CreateAnalysisResult(1, SampleData, MaxSeqCalls)
  \/ Collect(1)

SpecSeq == Init /\ [][SeqNext]_vars

\* One caller, one call after the other, on texts of every kind: analyses
\* that fail in their validation, in both backends or in the construction
\* of the result, analyses that succeed, and createAnalysisResult calls.
FrameNext ==
  \/ StartAnalysis(1, {"analyzer"}, SampleTexts, {"neutral"}, MaxSeqCalls)
  \/ CreateSettles(1, Instant)
  \/ SessionCreated(1)
  \/ CallBackend(1)
  \/ BackendSettles(1, SampleOutputs, Elapsed)
  \/ BackendRejects(1, Instant)
  \/ AttemptDone(1)
  \/ ServiceDone(1)
  \/ CreateAnalysisResult(1, SampleData, MaxSeqCalls)
  \/ Collect(1)

SpecFrame == Init /\ [][FrameNext]_vars

\* One caller, more calls than the history holds, in a browser that offers
\* the Rewriter alone: analyses, of which one answered within the
\* millisecond fails and records nothing, and createAnalysisResult calls.
HistInit == SvcInit(RewriterOnly) /\ FnIdle /\ AuxIdle

HistNext ==
  \/ StartAnalysis(1, {"analyzer"}, ConcTexts, {"neutral"}, MaxHistCalls)
  \/ CreateSettles(1, Instant)
  \/ SessionCreated(1)
  \/ CallBackend(1)
  \/ BackendSettles(1, ConcOutputs, Elapsed)
  \/ BackendRejects(1, Instant)
  \/ AttemptDone(1)
  \/ ServiceDone(1)
  \/ CreateAnalysisResult(1, {GoodData}, MaxHistCalls)
  \/ Collect(1)

SpecHist == HistInit /\ [][HistNext]_vars

\* The pure functions on every pair of texts.
FnInit ==
  /\ SvcInit(BothApis)
  /\ fnPc = "input"
  /\ fnOrig \in Texts
  /\ fnOut \in Texts
  /\ fnResult = NoFnResult
  /\ AuxIdle

FnNext == FnApply \/ FnReset

SpecFn == FnInit /\ [][FnNext]_vars

\* TextContent objects of both classes, every method called in every state.
TcInit ==
  /\ SvcInit(BothApis)
  /\ FnIdle
  /\ contents \in [Contents -> {NewTextContent("cjs"), NewTextContent("esm")}]
  /\ tcCall = NoTcCall
  /\ batch = NoBatch
  /\ destroyed = {}
  /\ cs = NewContentScript
  /\ cleanupCall = NoCleanup

TcNext == \E i \in Contents : CallSetter(i) \/ CallTransitionTo(i)

SpecTc == TcInit /\ [][TcNext]_vars

\* UserPreferences built from every combination of the inputs.
PrefsInit ==
  /\ SvcInit(BothApis)
  /\ AuxIdle
  /\ fnPc = "input"
  /\ fnOrig \in [preferredTone : ToneInputs, enabledDomains : DomainLists,
                  disabledDomains : DomainLists]
  /\ fnOut \in Urls
  /\ fnResult = NoFnResult

PrefsNext == PrefsApply

SpecPrefs == PrefsInit /\ [][PrefsNext]_vars

\* assessAnalysisQuality on analysis results of every kind.
QualityInit ==
  /\ SvcInit(BothApis)
  /\ AuxIdle
  /\ fnPc = "input"
  /\ fnOrig \in AnalysisResults
  /\ fnOut = EmptyText
  /\ fnResult = NoFnResult

QualityNext == QualityApply

SpecQuality == QualityInit /\ [][QualityNext]_vars

\* createAnalysisResult on analysis data of every kind.
DataInit ==
  /\ SvcInit(BothApis)
  /\ AuxIdle
  /\ fnPc = "input"
  /\ fnOrig \in AnalysisDatas
  /\ fnOut = EmptyText
  /\ fnResult = NoFnResult

DataNext == CreateFromData

SpecData == DataInit /\ [][DataNext]_vars

\* TextContent objects obtained in every way from texts of every kind.
WordsInit ==
  /\ SvcInit(BothApis)
  /\ AuxIdle
  /\ fnPc = "input"
  /\ fnOrig \in StoredContents
  /\ fnOut = EmptyText
  /\ fnResult = NoFnResult

WordsNext == ObtainTextContent

SpecWords == WordsInit /\ [][WordsNext]_vars

\* The ES-module service: one analyzeText or destroyAISession call.
EsmInit ==
  /\ SvcInit(BothApis)
  /\ AuxIdle
  /\ fnPc = "input"
  /\ fnOrig = EmptyText
  /\ fnOut = EmptyText
  /\ fnResult = NoFnResult

EsmNext == EsmAnalyzeText \/ EsmDestroyAISession

SpecEsm == EsmInit /\ [][EsmNext]_vars

\* An ExtensionState with its methods called in every order.
EsNext == CallExtensionState

SpecEs == HistInit /\ [][EsNext]_vars

\* The content script of one page with its user: fields are focused, the
\* text edited, analyses requested and answered, suggestions accepted or
\* rejected, the overlay closed.
CsNext ==
  \/ FieldDetected
  \/ UserEdits
  \/ AnalyzeRequested
  \/ ResponseArrives
  \/ SuggestionDecided
  \/ CloseOverlay

SpecCs == HistInit /\ [][CsNext]_vars

\* One caller of AIService making its calls one after the other: analyses,
\* createSession and destroySession, in a browser that offers the Rewriter
\* alone, while time passes by halves of the session timeout and the
\* cleanup timers run.  Timers that are due run,
\* pending backend calls settle and the callers' continuations run.
SessClock == TimePasses({sessionTimeout \div 2})

SessRuns ==
  \/ CreateSettles(1, Instant)
  \/ SessionCreated(1)
  \/ CallBackend(1)
  \/ BackendSettles(1, ConcOutputs, Instant)
  \/ BackendRejects(1, Instant)
  \/ AttemptDone(1)
  \/ ServiceDone(1)
  \/ DestroySettles(1)

SessTimers ==
  \/ \E t \in timers : TimerFires(t)
  \/ \E t \in timers : ReapSettles(t)

SessNext ==
  \/ StartAnalysis(1, {"service"}, ConcTexts, {"neutral"}, MaxSessCalls)
  \/ StartCreateSession(1, ApiTypes \cup {"summarizer"}, MaxSessCalls)
  \/ StartDestroySession(1, MaxSessCalls)
  \/ Collect(1)
  \/ SessRuns
  \/ SessTimers
  \/ SessClock

SpecSess ==
  /\ HistInit
  /\ [][SessNext]_vars
  /\ WF_vars(SessRuns)
  /\ WF_vars(SessTimers)
  /\ WF_vars(SessClock)

\* Two callers of AIService, the cleanup timers and cleanup() in any
\* interleaving: analyses, createSession and destroySession calls, in a
\* browser that offers the Rewriter alone; time passes by more than the
\* session timeout.
RaceNext ==
  \/ \E p \in Procs :
       \/ StartAnalysis(p, {"service"}, ConcTexts, {"neutral"}, MaxRaceCalls)
       \/ StartCreateSession(p, {"rewriter"}, MaxRaceCalls)
       \/ StartDestroySession(p, MaxRaceCalls)
       \/ CreateSettles(p, Instant)
       \/ SessionCreated(p)
       \/ CallBackend(p)
       \/ BackendSettles(p, ConcOutputs, Instant)
       \/ BackendRejects(p, Instant)
       \/ AttemptDone(p)
       \/ ServiceDone(p)
       \/ DestroySettles(p)
       \/ Collect(p)
  \/ \E t \in timers : TimerFires(t)
  \/ \E t \in timers : ReapSettles(t)
  \/ TimePasses({sessionTimeout + 1})
  \/ StartCleanup
  \/ \E id \in cleanupCall.pending : CleanupDestroySettles(id)

SpecRace == HistInit /\ [][RaceNext]_vars

\* The background script answering ANALYZE_TEXT messages, and a caller of
\* TextAnalyzer.analyzeText with plain preferences, one after the other.
BgNext ==
  \/ ReceiveAnalyzeText(1, SampleTexts, {"neutral"}, MaxSeqCalls)
  \/ StartAnalysis(1, {"analyzer"}, ConcTexts, Tones, MaxSeqCalls)
  \/ CreateSettles(1, Instant)
  \/ SessionCreated(1)
  \/ CallBackend(1)
  \/ BackendSettles(1, SampleOutputs, Tick)
  \/ BackendRejects(1, Instant)
  \/ AttemptDone(1)
  \/ ServiceDone(1)
  \/ SendResponse(1)
  \/ MessageDone(1)
  \/ (call[1].entry # "background" /\ Collect(1))

SpecBg == Init /\ [][BgNext]_vars

\* One analyzeBatch call on texts that pass and texts that fail, in a
\* browser that offers the Rewriter alone.
BatchTexts == {EmptyText, <<Run("a", 1)>>}

BatchNext ==
  \/ StartBatch(BatchTexts, 0..MaxItems, 0..NumProcs)
  \/ \E p \in Slots :
       \/ CreateSettles(p, Instant)
       \/ SessionCreated(p)
       \/ CallBackend(p)
       \/ BackendSettles(p, ConcOutputs, Tick)
       \/ BackendRejects(p, Instant)
       \/ AttemptDone(p)
       \/ ServiceDone(p)
       \/ ItemSettles(p)
  \/ WindowDone
  \/ DelayPasses
  \/ NextWindow

SpecBatch == HistInit /\ [][BatchNext]_vars

\* One analyzeBatch call with any integer for maxConcurrent.  Every
\* analysis ends and every pause passes.
LoopNext ==
  \/ StartBatch(BatchTexts, 0..MaxLoopItems, (-MaxDescent)..MaxDescent)
  \/ \E p \in Slots :
       \/ CreateSettles(p, Instant)
       \/ SessionCreated(p)
       \/ CallBackend(p)
       \/ BackendSettles(p, ConcOutputs, Tick)
       \/ BackendRejects(p, Instant)
       \/ AttemptDone(p)
       \/ ServiceDone(p)
       \/ ItemSettles(p)
  \/ WindowDone
  \/ DelayPasses
  \/ NextWindow

SpecLoop == HistInit /\ [][LoopNext]_vars /\ WF_vars(LoopNext)

(***************************************************************************)
(* Properties.                                                             *)
(***************************************************************************)
ConfidenceValues == {0, ConfBase, 799999, 899999, ConfOne}

\* C9: for every pair of original text and backend output, the confidence
\* _calculateConfidenceScore computes, which the response of the attempt and
\* the ClarityImprovement built from it carry, lies in [0, 1]: it is 0, the
\* base 0.7, or the base with one or both bonuses, never above the cap 1.0.
C9_ConfidenceInUnitInterval ==
  fnPc = "applied" =>
    /\ fnResult.response.confidenceScore =
         _calculateConfidenceScore(fnOrig, fnResult.response.improvedText)
    /\ fnResult.response.confidenceScore >= 0
    /\ fnResult.response.confidenceScore <= ConfOne
    /\ fnResult.response.confidenceScore \in ConfidenceValues
    /\ fnResult.built.ok =>
         /\ fnResult.built.value.confidenceScore >= 0
         /\ fnResult.built.value.confidenceScore <= ConfOne

\* Both bonuses apply and the result carries the capped sum.
C9_Witness ==
  /\ fnPc = "applied"
  /\ ConfidenceSum(fnOrig, fnOut) = ConfOne
  /\ fnResult.built.ok
  /\ fnResult.built.value.confidenceScore = ConfOne

\* The calls in which AIService.analyzeText has ended.
ServiceEnded(c) == c.pc \in {"serviceDone", "done"} /\ c.entry \in Entries

ValidationErrors ==
  {"Text cannot be empty", "TEXT_TOO_LONG", "Text is required and must be a string",
   "originalText maximum length is 5000 characters (based on AI model limits)"}

\* C4: an analysis of a text that is empty or longer than 5000 characters
\* fails with a validation error; no backend was probed, no session created,
\* no rewrite/prompt called, and the session table is as it was.
C4_InvalidTextRejectedFirst ==
  \A p \in Procs :
    LET c == call[p]
    IN  (c.entry \in Entries /\ (c.text = EmptyText \/ StrLen(c.text) > MaxTextLength)) =>
          /\ c.pc \in {"serviceDone", "done"}
          /\ c.outcome.kind = "threw"
          /\ c.outcome.error \in ValidationErrors
          /\ c.attempts = << >>
          /\ c.probes = 0 /\ c.creates = 0 /\ c.invokes = 0 /\ c.writes = 0
          /\ sessions = << >>
          /\ nextId = 1
          /\ \A k \in CacheKeys : keyStats[k].creates = 0

\* AIService.analyzeText has thrown TEXT_TOO_LONG for 5001 characters.
C4_Witness ==
  /\ call[1].pc = "done"
  /\ call[1].entry = "service"
  /\ StrLen(call[1].text) = MaxTextLength + 1
  /\ call[1].outcome = Threw("TEXT_TOO_LONG")

\* C5: when the primary and the fallback attempt both fail, the analysis
\* hands its caller a failure value (success = false with an error); it
\* does not throw.
C5_BothFailReturnsFailure ==
  \A p \in Procs :
    LET c == call[p]
    IN  (c.pc = "done" /\ Len(c.attempts) = 2 /\ c.result = Null) =>
          /\ c.outcome.kind = "returned"
          /\ c.entry = "service" =>
               /\ ~c.outcome.response.success
               /\ c.outcome.response.error.code = "API_UNAVAILABLE"

\* C6: for a valid text that the backend returns unchanged,
\* TextAnalyzer.analyzeText returns a result whose improvedText is the
\* original text, with exactly one change.
C6_EchoSucceeds ==
  \A p \in Procs :
    LET c == call[p]
    IN  (/\ c.pc = "done" /\ c.entry = "analyzer"
         /\ c.aiResponse.success
         /\ c.aiResponse.improvedText = c.text
         /\ c.aiResponse.processingTime > 0) =>
          /\ c.outcome.kind = "returned"
          /\ c.outcome.result.improvedText = c.text
          /\ Len(c.outcome.result.changes) = 1

\* C7: for a valid text and a non-empty backend output that differs from
\* it, TextAnalyzer.analyzeText returns a result with exactly one change: of
\* kind 'clarity', with reason 'Overall clarity improvement', from position
\* 0 to the length of the original text.
C7_OneWholeSpanChange ==
  \A p \in Procs :
    LET c == call[p]
    IN  (/\ c.pc = "done" /\ c.entry = "analyzer"
         /\ c.aiResponse.success
         /\ c.aiResponse.improvedText # EmptyText
         /\ c.aiResponse.improvedText # c.text
         /\ c.aiResponse.processingTime > 0) =>
          /\ c.outcome.kind = "returned"
          /\ Len(c.outcome.result.changes) = 1
          /\ c.outcome.result.changes[1].changeType = "clarity"
          /\ c.outcome.result.changes[1].reason = "Overall clarity improvement"
          /\ c.outcome.result.changes[1].startPosition = 0
          /\ c.outcome.result.changes[1].endPosition = StrLen(c.text)

\* The entries of the session table under a key.
EntriesOf(sess, k) ==
  {i \in 1..Len(sess) : CacheKey(sess[i].apiType, sess[i].parameters) = k}

\* C2: whatever the interleaving of concurrent analyses that use the same
\* backend kind and parameters, the session table holds at most one entry
\* for that key (and create() is called at most once for it).
C2_OneSessionPerKey ==
  \A k \in CacheKeys : Cardinality(EntriesOf(sessions, k)) <= 1

\* _getOrCreateSession returns to caller p in this step.
Returns(p) == call[p].pc # "haveSession" /\ call'[p].pc = "haveSession"

\* C3: when _getOrCreateSession is called for a key it has returned a
\* handle for before, it returns that same handle; nothing is created, the
\* table keeps its size and every createdAt, and only the lastUsed of the
\* entry found changes.
C3_SecondCallReuses ==
  [][\A p \in Procs :
       LET k == CacheKey(call'[p].api, call'[p].parameters)
       IN  (Returns(p) /\ keyStats[k].handles # {}) =>
             /\ keyStats[k].handles = {call'[p].session}
             /\ keyStats'[k] = keyStats[k]
             /\ nextId' = nextId
             /\ call'[p].creates = call[p].creates
             /\ Len(sessions') = Len(sessions)
             /\ \A i \in 1..Len(sessions) :
                  /\ sessions'[i].createdAt = sessions[i].createdAt
                  /\ sessions'[i] = [sessions[i] EXCEPT !.lastUsed = sessions'[i].lastUsed]
                  /\ sessions'[i].lastUsed # sessions[i].lastUsed =>
                       /\ sessions'[i].session = call'[p].session
                       /\ sessions'[i].lastUsed = now
                       /\ sessions'[i].lastUsed > sessions[i].lastUsed]_vars

\* The second analysis has its handle: the one session created by the first.
C3_Witness ==
  /\ started = 2
  /\ call[1].pc = "haveSession"
  /\ call[1].creates = 0
  /\ Len(sessions) = 1
  /\ sessions[1].session = call[1].session
  /\ sessions[1].lastUsed > sessions[1].createdAt
  /\ keyStats[CacheKey(call[1].api, call[1].parameters)] =
       [creates |-> 1, handles |-> {call[1].session}]

\* C8: every result returned by analyzeTextContent or createAnalysisResult
\* and every entry of the analysis history has at least one change.
C8_ChangesNeverEmpty ==
  /\ \A p \in Procs :
       (call[p].outcome.kind = "returned" /\ call[p].entry \in {"analyzer", "create"}) =>
         Len(call[p].outcome.result.changes) >= 1
  /\ \A i \in 1..Len(analysisHistory) :
       Len(analysisHistory[i].clarityImprovement.changes) >= 1

\* createAnalysisResult has returned after an analysis: two history entries.
C8_Witness ==
  /\ call[1].pc = "done"
  /\ call[1].entry = "create"
  /\ call[1].outcome.kind = "returned"
  /\ Len(analysisHistory) = 2
  /\ analysisHistory[1].clarityImprovement.changes = call[1].outcome.result.changes
  /\ analysisHistory[2].clarityImprovement.improvedText \in ConcOutputs

\* C10: the history holds at most 10 entries, newest first: the entries
\* recorded last, in reverse order of recording, the oldest one dropped
\* when an 11th is added.
C10_HistoryNewestTen ==
  /\ Len(analysisHistory) <= maxHistorySize
  /\ Len(analysisHistory) = Min(nextHistoryId - 1, maxHistorySize)
  /\ \A i \in 1..Len(analysisHistory) :
       /\ analysisHistory[i].id = nextHistoryId - i
       /\ i > 1 => analysisHistory[i].timestamp <= analysisHistory[i - 1].timestamp

\* Eleven results were recorded, by analyses and by createAnalysisResult:
\* the first one is gone.
C10_Witness ==
  /\ nextHistoryId = maxHistorySize + 2
  /\ Len(analysisHistory) = maxHistorySize
  /\ analysisHistory[1].id = maxHistorySize + 1
  /\ analysisHistory[maxHistorySize].id = 2
  /\ analysisHistory[1].clarityImprovement.improvedText \in ConcOutputs
  /\ analysisHistory[2].clarityImprovement.improvedText = GoodData.improvedText

\* C11: a TextContent's state changes only along Created -> Analyzing ->
\* Analyzed -> (Accepted | Rejected), in either class's spelling; a method
\* called for any other transition throws and leaves the state as it was.
C11_LifecycleOnly ==
  [][LET Lifecycle ==
           {<<"Created", "Analyzing">>, <<"Analyzing", "Analyzed">>,
            <<"Analyzed", "Accepted">>, <<"Analyzed", "Rejected">>,
            <<"created", "analyzing">>, <<"analyzing", "analyzed">>,
            <<"analyzed", "accepted">>, <<"analyzed", "rejected">>}
         c == tcCall'
         target == IF c.method = "transitionTo" THEN c.to
                   ELSE IF c.method = "setAnalyzing" THEN "Analyzing"
                   ELSE IF c.method = "setAnalyzed" THEN "Analyzed"
                   ELSE IF c.method = "setAccepted" THEN "Accepted"
                   ELSE "Rejected"
     IN  /\ \A i \in Contents :
              (contents'[i].state # contents[i].state)
                => (<<contents[i].state, contents'[i].state>> \in Lifecycle)
         /\ (tcCall' # tcCall) =>
              (/\ c.before = contents[c.obj].state
               /\ \A j \in Contents \ {c.obj} : contents'[j] = contents[j]
               /\ IF <<c.before, target>> \in Lifecycle
                  THEN c.error = "ok" /\ contents'[c.obj].state = target
                  ELSE c.error # "ok" /\ contents'[c.obj].state = c.before)]_vars

\* A setter called on an Accepted object and transitionTo called on a
\* rejected one have thrown.
C11_Witness ==
  /\ \E i \in Contents : contents[i].state = "Accepted"
  /\ \E i \in Contents : contents[i].state = "rejected"
  /\ tcCall.before \in {"Accepted", "rejected"}
  /\ tcCall.error # "ok"

\* C12: analyzeBatch works through consecutive windows of maxConcurrent
\* items: no item of a later window is started before every item of the
\* earlier windows has its outcome, at most maxConcurrent analyses are in
\* flight, and the outcome of item i stands at position i of the list.
C12_WindowsInOrder ==
  LET n == Len(batch.items)
      window(k) == (k - 1) \div batch.maxConcurrent
      inFlight == {p \in Slots : call[p].pc # "idle"}
  IN  batch.pc # "idle" =>
        /\ Cardinality(inFlight) <= batch.maxConcurrent
        /\ Cardinality({k \in 1..n : batch.status[k] = "running"}) <= batch.maxConcurrent
        /\ \A p \in inFlight : batch.status[batch.i + p] = "running"
        /\ \A j, k \in 1..n :
             (window(j) < window(k) /\ batch.status[k] # "pending")
               => batch.status[j] = "finished"
        /\ \A k \in 1..Len(batch.results) :
             /\ batch.results[k].index = k - 1
             /\ batch.results[k].originalItem = k
             /\ batch.results[k].success
                  => batch.results[k].result.originalText = batch.items[k]
        /\ batch.pc = "returned" => Len(batch.results) = n

\* In the second window of a batch the second item has its outcome, a
\* success, before the first.
C12_Witness ==
  /\ batch.pc = "window"
  /\ batch.i > 0
  /\ Len(batch.results) = batch.i
  /\ Len(batch.batchResults) >= 2
  /\ batch.batchResults[1] = Unsettled
  /\ batch.batchResults[2].success

\* C13: in analyzeBatch an analysis that throws is recorded as its item's
\* outcome, success = false with the error's message; the batch goes on,
\* and the list returned has one outcome per item.
C13_FailurePerItem ==
  [][/\ \A p \in Slots :
          (batch.pc = "window" /\ batch'.pc = "window" /\ batch'.i = batch.i
           /\ p \in DOMAIN batch.batchResults
           /\ batch'.batchResults[p] # batch.batchResults[p]
           /\ call[p].outcome.kind = "threw")
            => /\ ~batch'.batchResults[p].success
               /\ batch'.batchResults[p].error = call[p].outcome.error
               /\ batch'.batchResults[p].error # ""
     /\ \A k \in 1..Len(batch'.results) :
          batch'.items[k] = EmptyText
            => /\ ~batch'.results[k].success
               /\ batch'.results[k].error = "Text is required and must be a string"
     /\ batch'.pc = "returned"
          => /\ Len(batch'.results) = Len(batch'.items)
             /\ \A k \in 1..Len(batch'.items) : batch'.status[k] = "finished"]_vars

\* A batch of four has returned: its first item failed, an item failed
\* because the backend did, and the last item, in a later window, succeeded.
C13_Witness ==
  /\ batch.pc = "returned"
  /\ Len(batch.results) = MaxItems
  /\ ~batch.results[1].success
  /\ \E k \in 1..Len(batch.results) :
       /\ ~batch.results[k].success
       /\ batch.items[k] # EmptyText
  /\ batch.results[MaxItems].success
  /\ batch.maxConcurrent < MaxItems

\* C14: destroySession returns false and changes nothing for an id that is
\* not in the session table; for an id in the table it deletes the entry and
\* returns true, also when the session's destroy() throws, and never throws
\* itself; called again for an id it has returned true for, it returns false.
C14_DestroySession ==
  [][\A p \in Slots :
       (call'[p].entry = "destroySession" /\ call'[p].pc = "done" /\ call[p].pc # "done")
         => LET id == call'[p].sessionId
                known == SessionIndex(sessions, id) # 0
            IN  /\ call'[p].outcome.kind = "returned"
                /\ call[p].pc = "idle" =>
                     IF known
                     THEN /\ call'[p].outcome.value = "true"
                          /\ SessionIndex(sessions', id) = 0
                          /\ Len(sessions') = Len(sessions) - 1
                     ELSE /\ call'[p].outcome.value = "false"
                          /\ sessions' = sessions
                          /\ timers' = timers
                          /\ nextId' = nextId
                /\ call[p].pc = "destroying" =>
                     /\ call'[p].outcome.value = "true"
                     /\ SessionIndex(sessions', id) = 0
                /\ (call[p].pc = "idle" /\ id \in destroyed) =>
                     call'[p].outcome.value = "false"]_vars

\* destroySession has returned true for a session whose destroy() threw,
\* and the session is no longer in the table.
C14_Witness ==
  /\ call[1].entry = "destroySession"
  /\ call[1].pc = "done"
  /\ call[1].stage = "destroy threw"
  /\ call[1].outcome.value = "true"
  /\ call[1].sessionId \in destroyed
  /\ SessionIndex(sessions, call[1].sessionId) = 0

\* C15: every session that has been idle for more than sessionTimeout is
\* eventually destroyed and removed from the table, without cleanup(),
\* whether or not it was used again after its creation.
C15_IdleSessionsDestroyed ==
  \A id \in 1..MaxSessCalls :
    (/\ SessionIndex(sessions, id) # 0
     /\ now - sessions[SessionIndex(sessions, id)].lastUsed > sessionTimeout)
      ~> (SessionIndex(sessions, id) = 0)

\* C16: a cleanup timer that runs while its session was last used at most
\* sessionTimeout ago leaves the session in the table and starts no
\* destroySession for it.
C16_TimerSparesActiveSession ==
  [][\A t \in timers :
       (t.pc = "set" /\ t \notin timers')
         => LET i == SessionIndex(sessions, t.id)
            IN  (i # 0 /\ now - sessions[i].lastUsed <= sessionTimeout)
                  => /\ sessions' = sessions
                     /\ \A u \in timers' : u.id # t.id
                     /\ destroyed' = destroyed]_vars

\* The timer of a session that was used again after its creation has run,
\* sessionTimeout after the creation or later, and the session is in the
\* table.
C16_Witness ==
  \E i \in 1..Len(sessions) :
    /\ sessions[i].lastUsed > sessions[i].createdAt
    /\ now >= sessions[i].createdAt + sessionTimeout
    /\ \A t \in timers : t.id # sessions[i].id

\* C17: createSession called for a valid backend kind never throws: it
\* returns API_NOT_AVAILABLE when the backend is not there and a failure
\* when create() raises, storing nothing, and on success it stores the
\* session and returns its id and capabilities.
C17_CreateSessionNeverThrows ==
  \A p \in Slots :
    (call[p].entry = "createSession" /\ call[p].pc = "done" /\ call[p].apiType \in ApiTypes)
      => /\ call[p].outcome.kind = "returned"
         /\ ~apis[call[p].apiType]
              => call[p].outcome.response.error.code = "API_NOT_AVAILABLE"
         /\ IF call[p].outcome.response.success
            THEN /\ call[p].writes = 1
                 /\ call[p].outcome.response.sessionId = call[p].sessionId
            ELSE call[p].writes = 0

\* C18: _getOrCreateSession hands out a stored session only if it was
\* created for the requested backend and for parameters with the requested
\* keys and values; a request that differs in backend or parameter values
\* from every stored entry calls the backend's create().
C18_HitOnlyOnEqualRequest ==
  [][\A p \in Slots :
       LET c == call[p]
           d == call'[p]
           alike == {i \in 1..Len(sessions) :
                       /\ sessions[i].apiType = d.api
                       /\ Range(sessions[i].parameters) = Range(d.parameters)}
       IN  /\ (d.pc = "haveSession" /\ c.pc # "haveSession")
                => \E i \in 1..Len(sessions') :
                     /\ sessions'[i].session = d.session
                     /\ sessions'[i].apiType = d.api
                     /\ Range(sessions'[i].parameters) = Range(d.parameters)
           /\ (d.attempts # << >> /\ (c.pc = "idle" \/ d.attempts # c.attempts)
               /\ apis[d.api] /\ alike = {})
                => /\ d.pc = "creating"
                   /\ d.creates = (IF c.pc = "idle" THEN 0 ELSE c.creates) + 1]_vars

\* A call is creating a session on a backend for which the table holds a
\* session with other parameters.
C18_Witness ==
  /\ call[1].pc = "creating"
  /\ \E i \in 1..Len(sessions) :
       /\ sessions[i].apiType = call[1].api
       /\ Range(sessions[i].parameters) # Range(call[1].parameters)

\* C19: parameters with the same keys and values are one cache key, in
\* whatever order the keys were inserted: with the calls made one after the
\* other, the table never holds two sessions of one backend whose
\* parameters have the same keys and values.
C19_KeyOrderIrrelevant ==
  \A i, j \in 1..Len(sessions) :
    (/\ i # j
     /\ sessions[i].apiType = sessions[j].apiType)
      => Range(sessions[i].parameters) # Range(sessions[j].parameters)

\* C20: the background script answers an ANALYZE_TEXT message with one
\* response: {success: true, result} with the result of the analysis, or
\* {success: false, error} with the message of the error the analysis
\* threw; nothing is sent before the analysis has ended.
C20_OneStructuredResponse ==
  \A p \in Slots :
    call[p].entry = "background"
      => /\ Len(call[p].responses) = (IF call[p].pc = "responded" THEN 1 ELSE 0)
         /\ call[p].pc = "responded"
              => LET r == call[p].responses[1]
                     o == call[p].outcome
                 IN  IF o.kind = "returned"
                     THEN r.success /\ r.result = o.result /\ r.error = ""
                     ELSE /\ o.kind = "threw"
                          /\ ~r.success
                          /\ r.error = o.error
                          /\ r.error # ""

\* A message has been answered with a failure after both backends failed.
C20_Witness ==
  /\ call[1].entry = "background"
  /\ call[1].pc = "responded"
  /\ call[1].attempts = <<"rewriter", "prompt">>
  /\ call[1].aiResponse.error.code = "API_UNAVAILABLE"
  /\ ~call[1].responses[1].success

\* C21: when fallbackEnabled is false at the moment the primary attempt of
\* AIService.analyzeText has failed, the call ends there: the other backend
\* is not probed, no session is created on it, it is not called, and
\* analyzeText returns the failure API_UNAVAILABLE, which a direct caller
\* receives as the value of the call.
C21_NoFallbackWhenDisabled ==
  [][LET c == call[1]
         d == call'[1]
     IN  /\ (/\ c.pc = "attemptDone" /\ c.stage = "primary" /\ c.result = Null
              /\ ~fallbackEnabled /\ d # c)
               => /\ d.pc = "serviceDone"
                  /\ d.attempts = <<c.apiType>>
                  /\ d.probes = c.probes /\ d.creates = c.creates
                  /\ d.invokes = c.invokes
                  /\ sessions' = sessions /\ nextId' = nextId
                  /\ ~d.aiResponse.success
                  /\ d.aiResponse.error.code = "API_UNAVAILABLE"
         /\ (c.pc = "serviceDone" /\ d # c)
               => /\ d.attempts = c.attempts /\ d.creates = c.creates
                  /\ d.invokes = c.invokes
                  /\ (c.entry = "service" /\ c.outcome.kind # "threw")
                       => d.outcome = ReturnedResponse(c.aiResponse)]_vars

\* The Rewriter's rewrite() raised, the Prompt backend was there, and the
\* caller has the failure after the one attempt.
C21_Witness ==
  /\ call[1].pc = "done"
  /\ call[1].entry = "service"
  /\ apis["prompt"]
  /\ call[1].attempts = <<"rewriter">>
  /\ call[1].invokes = 1
  /\ call[1].outcome.kind = "returned"
  /\ ~call[1].outcome.response.success
  /\ call[1].outcome.response.error.code = "API_UNAVAILABLE"

\* C22: in every analyzeText call each backend is attempted at most once:
\* the first attempt is on the requested backend, a second attempt is on
\* the other one and begins only when the first has ended with null; after
\* a first attempt that gave a result the call ends without touching the
\* other backend, and an attempt calls create() and rewrite()/prompt() at
\* most once each.
C22_AtMostOneAttemptEach ==
  [][\A p \in Procs :
       LET c == call[p]
           d == call'[p]
       IN  /\ Len(d.attempts) <= 2
           /\ d.creates <= Len(d.attempts) /\ d.invokes <= Len(d.attempts)
           /\ d.attempts # << >> => d.attempts[1] = d.apiType
           /\ Len(d.attempts) = 2 => d.attempts[2] \in ApiTypes \ {d.attempts[1]}
           /\ (Len(d.attempts) = 2 /\ Len(c.attempts) = 1)
                => c.pc = "attemptDone" /\ c.result = Null
           /\ (c.pc = "attemptDone" /\ c.stage = "primary" /\ c.result # Null /\ d # c)
                => /\ d.pc = "serviceDone"
                   /\ d.attempts = c.attempts /\ d.probes = c.probes
                   /\ d.creates = c.creates /\ d.invokes = c.invokes
                   /\ d.aiResponse = c.result
           /\ (c.pc \in {"serviceDone", "done"} /\ d.pc # "idle")
                => d.attempts = c.attempts]_vars

\* The primary attempt has given a result and the call has ended with one
\* attempt, one create() and one rewrite().
C22_Witness ==
  /\ call[1].pc = "done"
  /\ call[1].attempts = <<"rewriter">>
  /\ call[1].creates = 1 /\ call[1].invokes = 1
  /\ call[1].aiResponse.success
  /\ apis["prompt"]

\* C23: the user's accept or reject decision on a displayed analysis result
\* sends exactly one USER_ACTION message with that action to the background
\* script and hides the overlay; on accept the text of the field becomes
\* the improved text, on reject the text stays.
C23_DecisionSendsUserAction ==
  [][cs'.decisions = cs.decisions + 1
       => /\ cs'.sent = Append(cs.sent, [type |-> "USER_ACTION",
                                          action |-> cs'.lastDecision])
          /\ ~cs'.overlay.isVisible
          /\ cs'.fieldText = (IF cs'.lastDecision = "accept"
                               THEN cs.overlay.result ELSE cs.fieldText)]_vars

\* C24: currentState changes only along the documented transitions
\* Inactive -> Active, Active -> Processing, Processing -> Completed,
\* Completed -> Active and any state -> Error; startProcessing succeeds
\* only from Active and completeProcessing only from Processing.
C24_DocumentedTransitionsOnly ==
  [][LET from == cs.es.currentState
         to == cs'.es.currentState
     IN  /\ to # from
              => \/ <<from, to>> \in {<<"Inactive", "Active">>, <<"Active", "Processing">>,
                                       <<"Processing", "Completed">>,
                                       <<"Completed", "Active">>}
                 \/ to = "Error"
         /\ (cs'.esCall # cs.esCall /\ cs'.esCall.error = "ok")
              => /\ cs'.esCall.method = "startProcessing" => from = "Active"
                 /\ cs'.esCall.method = "completeProcessing" => from = "Processing"]_vars

\* C25: the tone mapping is total and the two implementations agree:
\* preferredTone 'formal' gives the backend tone 'more-formal', 'casual'
\* gives 'more-casual', every other value 'as-is', with length 'as-is' and
\* format 'plain-text', in TextAnalyzer._getDefaultParameters for whatever
\* it is handed and in UserPreferences.getAIParameters for the tone of
\* every UserPreferences that can be built.
C25_ToneMappingAgrees ==
  (fnPc = "applied" /\ "defaultParameters" \in DOMAIN fnResult)
    => LET tone(t) == IF t = "formal" THEN "more-formal"
                      ELSE IF t = "casual" THEN "more-casual" ELSE "as-is"
           mapped(ps, t) ==
             /\ Len(ps) = 3
             /\ Range(ps) = {<<"tone", tone(t)>>, <<"length", "as-is">>,
                             <<"format", "plain-text">>}
       IN  /\ mapped(fnResult.defaultParameters, fnOrig.preferredTone)
           /\ fnResult.ok => mapped(fnResult.aiParameters, fnOrig.preferredTone)

\* A UserPreferences with the tone 'casual' has given 'more-casual'.
C25_Witness ==
  /\ fnPc = "applied"
  /\ "aiParameters" \in DOMAIN fnResult
  /\ fnResult.ok
  /\ fnOrig.preferredTone = "casual"
  /\ ParamGet(fnResult.aiParameters, "tone") = "more-casual"
  /\ ParamGet(fnResult.defaultParameters, "tone") = "more-casual"

\* C27: isDomainEnabled returns false for every URL whose host matches a
\* pattern of disabledDomains, also when it matches a pattern of
\* enabledDomains; it returns true when no disabled pattern matches and
\* enabledDomains is empty.
C27_DisabledTakesPrecedence ==
  (fnPc = "applied" /\ "isDomainEnabled" \in DOMAIN fnResult /\ fnResult.ok)
    => LET host == _extractDomain(fnOut)
           disabled == host # "" /\ _matchesDomainList(host, fnOrig.disabledDomains)
       IN  /\ disabled => ~fnResult.isDomainEnabled
           /\ (~disabled /\ fnOrig.enabledDomains = << >>) => fnResult.isDomainEnabled

\* The host of the URL is in both lists, and the answer is false.
C27_Witness ==
  /\ fnPc = "applied"
  /\ "isDomainEnabled" \in DOMAIN fnResult
  /\ fnResult.ok
  /\ fnOut = "http://Blocked.Example.com:8080/x?y"
  /\ fnOrig.disabledDomains = <<"blocked.example.com">>
  /\ fnOrig.enabledDomains = <<"blocked.example.com">>
  /\ ~fnResult.isDomainEnabled

\* C26 as stated: assessAnalysisQuality returns 'poor' exactly when the
\* confidence is below 0.6 or the improved text equals the original,
\* 'medium' exactly when the confidence is at least 0.6 and below 0.8 and
\* the text changed, and 'good' otherwise, whatever the result's other
\* fields are.
C26_QualityByConfidenceAndChange ==
  fnPc = "applied" =>
    LET low == fnOrig.confidenceScore < PoorConfidence
        medium == ~low /\ fnOrig.confidenceScore < MediumConfidence
        unchanged == fnOrig.originalText = fnOrig.improvedText
    IN  /\ fnResult.quality = "poor" <=> (low \/ unchanged)
        /\ fnResult.quality = "medium" <=> (medium /\ ~unchanged)
        /\ fnResult.quality = "good" <=> ~(low \/ unchanged \/ medium)

\* C26, for a result that has an improved text: the quality is 'poor'
\* exactly when the confidence is below 0.6 or the improved text equals the
\* original, 'medium' exactly when the confidence is at least 0.6 and below
\* 0.8 and the text changed, and 'good' otherwise; a processing time above
\* 2000 ms, a length change above 50% and an empty list of changes each add
\* their reason and leave the quality as it is.
C26_QualityOfResultWithText ==
  (fnPc = "applied" /\ fnOrig.improvedText # EmptyText) =>
    LET low == fnOrig.confidenceScore < PoorConfidence
        medium == ~low /\ fnOrig.confidenceScore < MediumConfidence
        unchanged == fnOrig.originalText = fnOrig.improvedText
        reasons == {fnResult.reasons[i] : i \in DOMAIN fnResult.reasons}
        plain == [fnOrig EXCEPT !.processingTime = SlowProcessingTime,
                                !.changes = <<"clarity">>]
    IN  /\ fnResult.quality = "poor" <=> (low \/ unchanged)
        /\ fnResult.quality = "medium" <=> (medium /\ ~unchanged)
        /\ fnResult.quality = "good" <=> ~(low \/ unchanged \/ medium)
        /\ "Slow processing time" \in reasons
             <=> fnOrig.processingTime > SlowProcessingTime
        /\ "No specific changes documented" \in reasons <=> fnOrig.changes = << >>
        /\ "Significant length change - may have altered meaning" \in reasons
             <=> 2 * Abs(StrLen(fnOrig.originalText) - StrLen(fnOrig.improvedText))
                   > StrLen(fnOrig.originalText)

\* A result at the confidence 0.6 exactly, slow, without changes and of
\* four times the length was assessed as medium, with the three reasons.
C26_Witness ==
  /\ fnPc = "applied"
  /\ fnOrig.improvedText = <<Run("a", 4)>>
  /\ fnOrig.originalText = <<Run("a", 1)>>
  /\ fnOrig.confidenceScore = PoorConfidence
  /\ fnOrig.processingTime > SlowProcessingTime
  /\ fnOrig.changes = << >>
  /\ fnResult.quality = "medium"
  /\ Len(fnResult.reasons) = 4
\* C28: createAnalysisResult succeeds for every data object with a non-empty
\* originalText, a non-empty improvedText and a list of valid changes
\* (at least one; each of a valid type, with two different non-empty
\* phrases and positions that are omitted or in order), also when
\* confidenceScore and processingTime are omitted, and every change of the
\* returned result has startPosition < endPosition.
C28_CreateAnalysisResultSucceeds ==
  (/\ fnPc = "applied"
   /\ fnOrig.originalText # EmptyText
   /\ fnOrig.improvedText # EmptyText
   /\ fnOrig.confidenceScore \in 0..ConfOne
   /\ fnOrig.processingTime >= 0
   /\ Len(fnOrig.changes) >= 1
   /\ \A i \in DOMAIN fnOrig.changes :
        LET change == fnOrig.changes[i]
        IN  /\ change.changeType \in ValidChangeTypes
            /\ change.originalPhrase # EmptyText
            /\ change.improvedPhrase # EmptyText
            /\ change.originalPhrase # change.improvedPhrase
            /\ \/ change.startPosition = 0 /\ change.endPosition = 0
               \/ change.startPosition < change.endPosition)
  => /\ fnResult.ok
     /\ Len(fnResult.value.changes) = Len(fnOrig.changes)
     /\ \A i \in DOMAIN fnResult.value.changes :
          fnResult.value.changes[i].startPosition < fnResult.value.changes[i].endPosition
\* C29: for every TextContent instance, however obtained (constructor,
\* createFromElement, fromJSON), wordCount equals the number of non-empty
\* whitespace-separated tokens of originalText: the number of places of
\* the text where a character that is no whitespace begins the text or
\* follows whitespace.
C29_WordCountIsTokenCount ==
  (fnPc = "applied" /\ fnResult.ok) =>
    LET text == fnResult.originalText
    IN  fnResult.wordCount =
          Cardinality({i \in DOMAIN text :
                         ~IsSpace(text[i].c) /\ (i = 1 \/ IsSpace(text[i - 1].c))})
\* C30: when the AI service reports failure for a TextContent under
\* analysis (both backends failed), the error analyzeTextContent throws to
\* its caller carries the AI service's failure message, or 'AI analysis
\* failed' when there is none; it is not a state-transition error.
C30_ThrownErrorIsServiceFailure ==
  \A p \in Procs :
    LET c == call[p]
    IN  (/\ c.pc = "done" /\ c.entry = "analyzer"
         /\ Len(c.attempts) = 2
         /\ c.aiResponse # Null /\ ~c.aiResponse.success) =>
          /\ c.outcome.kind = "threw"
          /\ c.outcome.error = IF c.aiResponse.error.message # ""
                               THEN c.aiResponse.error.message
                               ELSE "AI analysis failed"
\* C31: after analyzeTextContent has returned or thrown, the TextContent it
\* was given is not in state Analyzing: it is Analyzed when a result was
\* returned and in a terminal state (Accepted or Rejected) when the
\* analysis failed.
C31_NeverLeftAnalyzing ==
  \A p \in Procs :
    LET c == call[p]
    IN  (c.pc = "done" /\ c.entry = "analyzer" /\ c.tcState # "") =>
          /\ c.tcState # "Analyzing"
          /\ c.outcome.kind = "returned" => c.tcState = "Analyzed"
          /\ c.outcome.kind = "threw" => c.tcState \in {"Accepted", "Rejected"}
\* C32: an analysis or createAnalysisResult call that fails leaves the
\* analysis history unchanged; the history changes only in the step in
\* which a call returns its result, and then the result's entry is the
\* first (newest) one, in front of the entries there were.
C32_HistoryOnlyOnSuccess ==
  [][LET c == call[1]
         d == call'[1]
         ends == c.pc # "done" /\ d.pc = "done" /\ d.entry \in {"analyzer", "create"}
     IN  /\ (ends /\ d.outcome.kind = "threw") => analysisHistory' = analysisHistory
         /\ analysisHistory' # analysisHistory => (ends /\ d.outcome.kind = "returned")
         /\ (ends /\ d.outcome.kind = "returned") =>
              /\ Len(analysisHistory') = Len(analysisHistory) + 1
              /\ Tail(analysisHistory') = analysisHistory
              /\ analysisHistory'[1].originalText = d.outcome.result.originalText
              /\ AnalysisResult(d.outcome.result.originalText,
                                analysisHistory'[1].clarityImprovement) = d.outcome.result
              /\ ClarityImprovement_validate(analysisHistory'[1].clarityImprovement) = "ok"]_vars

\* After a first call had recorded its result, an analysis failed and the
\* history is as it was: that one entry.
C32_Witness ==
  /\ call[1].pc = "done"
  /\ call[1].entry = "analyzer"
  /\ call[1].outcome.kind = "threw"
  /\ started = 2
  /\ Len(analysisHistory) = 1
\* C33: under any interleaving of destroySession calls, the cleanup timers
\* and cleanup(), the backend destroy operation of a session is invoked at
\* most once during the life of that session.  An entry leaves the table
\* when the first destroy() invoked on its session has settled, so that a
\* second invocation is one made while the first is in flight: no session
\* has two destroy operations in flight.
C33_DestroyInvokedOnce ==
  \A id \in 1..(nextId - 1) : DestroysInFlight(id) <= 1

\* C34: _getOrCreateSession never hands out a session whose destroy
\* operation has already been invoked: when a lookup hits the table (the
\* attempt gets a session without having created one), no destroySession
\* call of a caller, of a cleanup timer or of cleanup() is in progress for
\* the session it returns.
C34_NoHandleUnderDestruction ==
  [][\A p \in Procs :
       (/\ call[p].pc # "haveSession"
        /\ call'[p].pc = "haveSession"
        /\ call'[p].sessionId = 0) =>
         DestroysInFlight(call'[p].session) = 0]_vars

\* C35: when cleanup() resolves, the session table is empty and the
\* destroySession call of every session cleanup found has returned, also
\* when destroy operations throw and when session creations were in
\* flight while cleanup ran.
C35_CleanupEmptiesTable ==
  [][(cleanupCall.pc # "resolved" /\ cleanupCall'.pc = "resolved") =>
       /\ sessions' = << >>
       /\ cleanupCall'.sessionIds \subseteq destroyed']_vars
\* C36: in the ES-module service the fallback is symmetric: when the
\* requested primary backend fails, the other backend is attempted once,
\* for primary 'prompt' (falling back to the rewriter) as for primary
\* 'rewriter' (falling back to prompt).
C36_SymmetricFallback ==
  (/\ fnPc = "applied" /\ fnOut = "analyzeText"
   /\ fnResult.threw = ""
   /\ fnOrig.backends[fnOrig.request.apiType] # "ok") =>
    LET other == IF fnOrig.request.apiType = "rewriter" THEN "prompt" ELSE "rewriter"
    IN  /\ fnResult.attempts = <<fnOrig.request.apiType, other>>
        /\ fnResult.success <=> fnOrig.backends[other] = "ok"
        /\ fnResult.success => fnResult.apiUsed = other

\* C37: in the ES-module service destroyAISession of a known session id
\* removes the entry from the session table and returns true, also when
\* the session's destroy operation throws.
C37_FailingReleaseStillRemoves ==
  (/\ fnPc = "applied" /\ fnOut = "destroyAISession"
   /\ fnOrig.sessionId \in fnOrig.sessions) =>
    /\ fnResult.returned
    /\ fnResult.sessions = fnOrig.sessions \ {fnOrig.sessionId}
\* C38: a content script has at most one analysis request in flight: an
\* analyze request that arrives while processingInProgress is true is
\* ignored without sending a message, and processingInProgress is false
\* again after every completed request, whatever its outcome (a result,
\* an empty text, an error response or an exception).
C38_OneRequestInFlight ==
  [][LET inFlight(c) ==
           Cardinality({i \in DOMAIN c.sent : c.sent[i].type = "ANALYZE_TEXT"}) - c.answers
         requested == cs'.clicks = cs.clicks + 1 /\ cs'.decisions = cs.decisions
     IN  /\ inFlight(cs') \in {0, 1}
         /\ cs'.processingInProgress <=> inFlight(cs') = 1
         /\ (requested /\ cs.processingInProgress) =>
              cs' = [cs EXCEPT !.clicks = @ + 1, !.ignored = @ + 1]
         /\ (requested /\ ~cs.processingInProgress) =>
              (cs'.processingInProgress <=> Len(cs'.sent) = Len(cs.sent) + 1)
         /\ cs'.answers = cs.answers + 1 => ~cs'.processingInProgress]_vars

\* A request was made while the answer to another one was awaited, and
\* ignored; then the answer arrived: nothing is in progress, one message
\* was sent.
C38_Witness ==
  /\ cs.clicks = 2
  /\ cs.ignored = 1
  /\ cs.decisions = 0
  /\ cs.answers = 1
  /\ Len(cs.sent) = 1
  /\ ~cs.processingInProgress
  /\ cs.pc = "idle"
====
